---------------------------- MODULE Spec2Model ----------------------------
(***************************************************************************)
(* The ASIMD instruction emitters of the ARM64 code emitter (EmitterOps).  *)
(*                                                                         *)
(* A 32-bit value (uint32_t) is the set of the positions of its one bits,  *)
(* a subset of 0..31: `a | b` is the union, `a << k` moves every position  *)
(* up by k and drops what leaves bit 31, `a >> k` moves down and drops     *)
(* what leaves bit 0.  The emitter is a record [sink, ok]: sink is the     *)
(* instruction stream dc32 appends to, ok turns FALSE when a               *)
(* LOGMAN_THROW_A_FMT fails, after which nothing more is emitted.          *)
(***************************************************************************)
EXTENDS Integers, Sequences, FiniteSets, TLC

VARIABLES sink, status, calls, peer
vars == <<sink, status, calls, peer>>

(* Bounds of the model. *)
MaxCalls == 2
MaxShift == 130
MaxIndex == 33
MaxLane == 17
MaxFractionalBits == 66

----------------------------------------------------------------------------
(* uint32_t arithmetic *)

U32 == 0..31

RECURSIVE Pow2(_)
Pow2(n) == IF n = 0 THEN 1 ELSE 2 * Pow2(n - 1)
PowersOfTwo == [i \in 0..30 |-> Pow2(i)]

\* The bits of a number 0 <= n < 2^31.
Bits(n) == {i \in 0..30 : (n \div PowersOfTwo[i]) % 2 = 1}

\* a << k on uint32_t.
Shl(a, k) == {i + k : i \in a} \cap U32

\* a >> k on uint32_t.
Shr(a, k) == {i - k : i \in {j \in a : j >= k}}

\* a & mask.
And(a, mask) == a \cap mask

\* uint32_t(a - b) for numbers a, b: wraps modulo 2^32 when b > a.
Sub32(a, b) == IF a >= b THEN Bits(a - b)
               ELSE Bits((2147483647 - (b - a)) + 1) \cup {31}

\* The number held in bits lo..hi of word w.
RECURSIVE Field(_, _, _)
Field(w, hi, lo) == IF hi < lo THEN 0
                    ELSE 2 * Field(w, hi, lo + 1) + (IF lo \in w THEN 1 ELSE 0)

----------------------------------------------------------------------------
(* Element sizes and the emitter's collaborators *)

i8Bit == 0
i16Bit == 1
i32Bit == 2
i64Bit == 3
i128Bit == 4
SubRegSizes == {i8Bit, i16Bit, i32Bit, i64Bit, i128Bit}

\* SubRegSize(ToUnderlying(size) - 1): the enumerator one step narrower.
\* Below i8Bit the value is no enumerator (NoSize).
NoSize == 0 - 1
Narrower(size) == IF size = i8Bit THEN NoSize ELSE size - 1

\* Element width in bits.  For a value that is no enumerator the result is
\* undefined: ub is the value the build happens to produce.
SubRegSizeInBits(size, ub) == IF size \in SubRegSizes THEN 8 * Pow2(size) ELSE ub

IsStandardFloatSize(size) == size \in {i16Bit, i32Bit, i64Bit}

\* LOGMAN_THROW_A_FMT(cond, ...): a failed check is fatal.
LOGMAN_THROW_A_FMT(e, cond) == IF e.ok /\ ~cond THEN [e EXCEPT !.ok = FALSE] ELSE e

\* Append one 32-bit word to the instruction stream.
dc32(e, Instr) == IF e.ok THEN [e EXCEPT !.sink = Append(@, Instr)] ELSE e

Encode_rd(rd) == Bits(rd)
Encode_rn(rn) == Shl(Bits(rn), 5)
Encode_rm(rm) == Shl(Bits(rm), 16)

\* Q is 1U << 30 for a QRegister and 0 for a DRegister.
QBit(Q) == IF Q = 1 THEN {30} ELSE {}

----------------------------------------------------------------------------
(* Category encoders *)

\* A variant of ASIMD2RegMisc that puts its word in front of the words
\* already in the sink.
ASIMD2RegMisc_InFront(e, Q, U, size, opcode, rd, rn) ==
  LET Instr == Shl(Bits(\b0000111000100000000010), 10) \cup QBit(Q) \cup Shl(Bits(U), 29)
                 \cup Shl(Bits(size), 22) \cup Shl(Bits(opcode), 12)
                 \cup Encode_rn(rn) \cup Encode_rd(rd)
  IN IF e.ok THEN [e EXCEPT !.sink = <<Instr>> \o @] ELSE e

\* Advanced SIMD two-register miscellaneous
ASIMD2RegMisc(e, Q, U, size, opcode, rd, rn) ==
  LET Instr == Shl(Bits(\b0000111000100000000010), 10)
                 \cup QBit(Q)
                 \cup Shl(Bits(U), 29)
                 \cup Shl(Bits(size), 22)
                 \cup Shl(Bits(opcode), 12)
                 \cup Encode_rn(rn)
                 \cup Encode_rd(rd)
  IN dc32(e, Instr)

\* Advanced SIMD three same
ASIMD3Same(e, Q, U, size, opcode, rd, rn, rm) ==
  LET Instr == Shl(Bits(\b0000111000100000000001), 10)
                 \cup QBit(Q)
                 \cup Shl(Bits(U), 29)
                 \cup Shl(Bits(size), 22)
                 \cup Encode_rm(rm)
                 \cup Shl(Bits(opcode), 11)
                 \cup Encode_rn(rn)
                 \cup Encode_rd(rd)
  IN dc32(e, Instr)

\* Advanced SIMD shift by immediate.  immh and immb are uint32_t values.
ASIMDShiftByImm(e, Q, U, immh, immb, opcode, rn, rd) ==
  LET e1 == LOGMAN_THROW_A_FMT(e, immh # {})
      Instr == Shl(Bits(\b0000111100000000000001), 10)
                 \cup QBit(Q)
                 \cup Shl(Bits(U), 29)
                 \cup Shl(immh, 19)
                 \cup Shl(immb, 16)
                 \cup Shl(Bits(opcode), 11)
                 \cup Encode_rn(rn)
                 \cup Encode_rd(rd)
  IN dc32(e1, Instr)

\* Advanced SIMD vector x indexed element.  H, L, M are uint32_t values.
ASIMDVectorXIndexedElement(e, Q, U, L, M, opcode, H, size, rm, rn, rd) ==
  LET Instr == Shl(Bits(\b0000111100000000000000), 10)
                 \cup QBit(Q)
                 \cup Shl(Bits(U), 29)
                 \cup Shl(Bits(size), 22)
                 \cup Shl(Bits(L), 21)
                 \cup Shl(Bits(M), 20)
                 \cup Shl(Bits(rm), 16)
                 \cup Shl(Bits(opcode), 12)
                 \cup Shl(Bits(H), 11)
                 \cup Shl(Bits(rn), 5)
                 \cup Bits(rd)
  IN dc32(e, Instr)

----------------------------------------------------------------------------
(* Advanced SIMD shift by immediate: the mnemonics.                        *)
(* Mnemonics whose bodies differ only in the U bit and the opcode they     *)
(* hand to ASIMDShiftByImm share one definition, named after the first of  *)
(* them in the source; ShiftByImmTable gives each mnemonic its U, opcode   *)
(* and register type (T: templated on QRegister/DRegister).                *)

\* sshr, ssra, srshr, srsra, ushr, usra, urshr, ursra, sri
sshr(e, Q, U, opcode, size, rd, rn, Shift) ==
  LET e1 == LOGMAN_THROW_A_FMT(e, Q = 1 \/ size # i64Bit)
      SubregSizeInBits == SubRegSizeInBits(size, 0)
      InvertedShift == Sub32(SubregSizeInBits * 2, Shift)
      immh == Shr(InvertedShift, 3)
      immb == And(InvertedShift, Bits(\b111))
  IN ASIMDShiftByImm(e1, Q, U, immh, immb, opcode, rn, rd)

\* shl, sqshl, sli, sqshlu, uqshl
shl(e, Q, U, opcode, size, rd, rn, Shift) ==
  LET e1 == LOGMAN_THROW_A_FMT(e, Q = 1 \/ size # i64Bit)
      SubregSizeInBits == SubRegSizeInBits(size, 0)
      InvertedShift == Bits(SubregSizeInBits + Shift)
      immh == Shr(InvertedShift, 3)
      immb == And(InvertedShift, Bits(\b111))
  IN ASIMDShiftByImm(e1, Q, U, immh, immb, opcode, rn, rd)

\* shrn, shrn2, rshrn, rshrn2, sqshrn, sqshrn2, sqrshrn, sqrshrn2,
\* sqshrun, sqshrun2, sqrshrun, sqrshrun2 (size is the destination size)
shrn(e, Q, U, opcode, size, rd, rn, Shift) ==
  LET e1 == LOGMAN_THROW_A_FMT(e, size # i64Bit)
      SubregSizeInBits == SubRegSizeInBits(size, 0)
      InvertedShift == Sub32(SubregSizeInBits * 2, Shift)
      immh == Shr(InvertedShift, 3)
      immb == And(InvertedShift, Bits(\b111))
  IN ASIMDShiftByImm(e1, Q, U, immh, immb, opcode, rn, rd)

\* uqshrn, uqshrn2, uqrshrn, uqrshrn2 (size is the destination size)
uqshrn(e, Q, U, opcode, size, rd, rn, Shift) ==
  LET SubregSizeInBits == SubRegSizeInBits(size, 0)
      InvertedShift == Sub32(SubregSizeInBits * 2, Shift)
      immh == Shr(InvertedShift, 3)
      immb == And(InvertedShift, Bits(\b111))
  IN ASIMDShiftByImm(e, Q, U, immh, immb, opcode, rn, rd)

\* sshll (Q = 0), sshll2 (Q = 1) (size is the destination size)
sshll(e, Q, size, rd, rn, Shift) ==
  LET e1 == LOGMAN_THROW_A_FMT(e, size # i8Bit)
      size1 == Narrower(size)
      SubregSizeInBits == SubRegSizeInBits(size1, 0)
      e2 == LOGMAN_THROW_A_FMT(e1, Shift < SubregSizeInBits)
      InvertedShift == Bits(SubregSizeInBits + Shift)
      immh == Shr(InvertedShift, 3)
      immb == And(InvertedShift, Bits(\b111))
  IN ASIMDShiftByImm(e2, Q, 0, immh, immb, \b10100, rn, rd)

sxtl(e, size, rd, rn) == sshll(e, 0, size, rd, rn, 0)

\* A variant of sxtl2 that forwards to sshll instead of sshll2.
sxtl2_ToLowerHalf(e, size, rd, rn) == sshll(e, 0, size, rd, rn, 0)

sxtl2(e, size, rd, rn) == sshll(e, 1, size, rd, rn, 0)

\* ushll (Q = 0), ushll2 (Q = 1) (size is the destination size).  Nothing
\* is checked: for i8Bit the narrower size is no enumerator and its width
\* in bits is whatever the build produces (ub).
ushll(e, Q, size, rd, rn, Shift, ub) ==
  LET size1 == Narrower(size)
      SubregSizeInBits == SubRegSizeInBits(size1, ub)
      InvertedShift == Bits(SubregSizeInBits + Shift)
      immh == Shr(InvertedShift, 3)
      immb == And(InvertedShift, Bits(\b111))
  IN ASIMDShiftByImm(e, Q, 1, immh, immb, \b10100, rn, rd)

uxtl(e, size, rd, rn, ub) == ushll(e, 0, size, rd, rn, 0, ub)

uxtl2(e, size, rd, rn, ub) == ushll(e, 1, size, rd, rn, 0, ub)

\* scvtf, fcvtzs, ucvtf, fcvtzu (vector, fixed-point)
scvtf(e, Q, U, opcode, size, rd, rn, FractionalBits) ==
  LET e1 == LOGMAN_THROW_A_FMT(e, size # i8Bit)
      e2 == LOGMAN_THROW_A_FMT(e1, Q = 1 \/ size # i64Bit)
      SubregSizeInBits == SubRegSizeInBits(size, 0)
      e3 == LOGMAN_THROW_A_FMT(e2, FractionalBits < SubregSizeInBits)
      InvertedFractionalBits == Sub32(SubregSizeInBits * 2, FractionalBits)
      immh == Shr(InvertedFractionalBits, 3)
      immb == And(InvertedFractionalBits, Bits(\b111))
  IN ASIMDShiftByImm(e3, Q, U, immh, immb, opcode, rn, rd)

ShiftByImmTable ==
  [ sshr      |-> [form |-> "sshr",   reg |-> "T", U |-> 0, opcode |-> \b00000],
    ssra      |-> [form |-> "sshr",   reg |-> "T", U |-> 0, opcode |-> \b00010],
    srshr     |-> [form |-> "sshr",   reg |-> "T", U |-> 0, opcode |-> \b00100],
    srsra     |-> [form |-> "sshr",   reg |-> "T", U |-> 0, opcode |-> \b00110],
    shl       |-> [form |-> "shl",    reg |-> "T", U |-> 0, opcode |-> \b01010],
    sqshl     |-> [form |-> "shl",    reg |-> "T", U |-> 0, opcode |-> \b01110],
    shrn      |-> [form |-> "shrn",   reg |-> "D", U |-> 0, opcode |-> \b10000],
    shrn2     |-> [form |-> "shrn",   reg |-> "Q", U |-> 0, opcode |-> \b10000],
    rshrn     |-> [form |-> "shrn",   reg |-> "D", U |-> 0, opcode |-> \b10001],
    rshrn2    |-> [form |-> "shrn",   reg |-> "Q", U |-> 0, opcode |-> \b10001],
    sqshrn    |-> [form |-> "shrn",   reg |-> "D", U |-> 0, opcode |-> \b10010],
    sqshrn2   |-> [form |-> "shrn",   reg |-> "Q", U |-> 0, opcode |-> \b10010],
    sqrshrn   |-> [form |-> "shrn",   reg |-> "D", U |-> 0, opcode |-> \b10011],
    sqrshrn2  |-> [form |-> "shrn",   reg |-> "Q", U |-> 0, opcode |-> \b10011],
    sshll     |-> [form |-> "sshll",  reg |-> "D", U |-> 0, opcode |-> \b10100],
    sshll2    |-> [form |-> "sshll",  reg |-> "Q", U |-> 0, opcode |-> \b10100],
    sxtl      |-> [form |-> "sxtl",   reg |-> "D", U |-> 0, opcode |-> \b10100],
    sxtl2     |-> [form |-> "sxtl2",  reg |-> "Q", U |-> 0, opcode |-> \b10100],
    scvtf     |-> [form |-> "scvtf",  reg |-> "T", U |-> 0, opcode |-> \b11100],
    fcvtzs    |-> [form |-> "scvtf",  reg |-> "T", U |-> 0, opcode |-> \b11111],
    ushr      |-> [form |-> "sshr",   reg |-> "T", U |-> 1, opcode |-> \b00000],
    usra      |-> [form |-> "sshr",   reg |-> "T", U |-> 1, opcode |-> \b00010],
    urshr     |-> [form |-> "sshr",   reg |-> "T", U |-> 1, opcode |-> \b00100],
    ursra     |-> [form |-> "sshr",   reg |-> "T", U |-> 1, opcode |-> \b00110],
    sri       |-> [form |-> "sshr",   reg |-> "T", U |-> 1, opcode |-> \b01000],
    sli       |-> [form |-> "shl",    reg |-> "T", U |-> 1, opcode |-> \b01010],
    sqshlu    |-> [form |-> "shl",    reg |-> "T", U |-> 1, opcode |-> \b01100],
    uqshl     |-> [form |-> "shl",    reg |-> "T", U |-> 1, opcode |-> \b01110],
    sqshrun   |-> [form |-> "shrn",   reg |-> "D", U |-> 1, opcode |-> \b10000],
    sqshrun2  |-> [form |-> "shrn",   reg |-> "Q", U |-> 1, opcode |-> \b10000],
    sqrshrun  |-> [form |-> "shrn",   reg |-> "D", U |-> 1, opcode |-> \b10001],
    sqrshrun2 |-> [form |-> "shrn",   reg |-> "Q", U |-> 1, opcode |-> \b10001],
    uqshrn    |-> [form |-> "uqshrn", reg |-> "D", U |-> 1, opcode |-> \b10010],
    uqshrn2   |-> [form |-> "uqshrn", reg |-> "Q", U |-> 1, opcode |-> \b10010],
    uqrshrn   |-> [form |-> "uqshrn", reg |-> "D", U |-> 1, opcode |-> \b10011],
    uqrshrn2  |-> [form |-> "uqshrn", reg |-> "Q", U |-> 1, opcode |-> \b10011],
    ushll     |-> [form |-> "ushll",  reg |-> "D", U |-> 1, opcode |-> \b10100],
    ushll2    |-> [form |-> "ushll",  reg |-> "Q", U |-> 1, opcode |-> \b10100],
    uxtl      |-> [form |-> "uxtl",   reg |-> "D", U |-> 1, opcode |-> \b10100],
    uxtl2     |-> [form |-> "uxtl2",  reg |-> "Q", U |-> 1, opcode |-> \b10100],
    ucvtf     |-> [form |-> "scvtf",  reg |-> "T", U |-> 1, opcode |-> \b11100],
    fcvtzu    |-> [form |-> "scvtf",  reg |-> "T", U |-> 1, opcode |-> \b11111] ]

ShiftByImmMnemonics == DOMAIN ShiftByImmTable

\* The call c = [mn, Q, size, rd, rn, rm, imm, ub] of a shift-by-immediate
\* mnemonic on emitter e.
ShiftByImm(e, c) ==
  LET t == ShiftByImmTable[c.mn] IN
  CASE t.form = "sshr"   -> sshr(e, c.Q, t.U, t.opcode, c.size, c.rd, c.rn, c.imm)
    [] t.form = "shl"    -> shl(e, c.Q, t.U, t.opcode, c.size, c.rd, c.rn, c.imm)
    [] t.form = "shrn"   -> shrn(e, c.Q, t.U, t.opcode, c.size, c.rd, c.rn, c.imm)
    [] t.form = "uqshrn" -> uqshrn(e, c.Q, t.U, t.opcode, c.size, c.rd, c.rn, c.imm)
    [] t.form = "sshll"  -> sshll(e, c.Q, c.size, c.rd, c.rn, c.imm)
    [] t.form = "sxtl"   -> sxtl(e, c.size, c.rd, c.rn)
    [] t.form = "sxtl2"  -> sxtl2(e, c.size, c.rd, c.rn)
    [] t.form = "ushll"  -> ushll(e, c.Q, c.size, c.rd, c.rn, c.imm, c.ub)
    [] t.form = "uxtl"   -> uxtl(e, c.size, c.rd, c.rn, c.ub)
    [] t.form = "uxtl2"  -> uxtl2(e, c.size, c.rd, c.rn, c.ub)
    [] t.form = "scvtf"  -> scvtf(e, c.Q, t.U, t.opcode, c.size, c.rd, c.rn, c.imm)

----------------------------------------------------------------------------
(* Advanced SIMD vector x indexed element: the mnemonics.                  *)
(* As above, one definition per distinct body; IndexedElementTable gives   *)
(* each mnemonic its U, opcode, register type and fixed element size.      *)

\* mul, sqdmulh, sqrdmulh, mla, mls, sqrdmlah, sqrdmlsh
mul(e, Q, U, opcode, size, rd, rn, rm, Index) ==
  LET e1 == LOGMAN_THROW_A_FMT(e, size = i16Bit \/ size = i32Bit)
      e2 == IF size = i16Bit THEN LOGMAN_THROW_A_FMT(e1, rm < 16) ELSE e1
      e3 == LOGMAN_THROW_A_FMT(e2, Index < SubRegSizeInBits(size, 0))
      H == IF size = i16Bit THEN (Index \div 4) % 2 ELSE (Index \div 2) % 2
      L == IF size = i16Bit THEN (Index \div 2) % 2 ELSE Index % 2
      M == IF size = i16Bit THEN Index % 2 ELSE 0
  IN ASIMDVectorXIndexedElement(e3, Q, U, L, M, opcode, H, size, rm, rn, rd)

\* smlal, smlal2, sqdmlal, sqdmlal2, smlsl, smlsl2, sqdmlsl, sqdmlsl2,
\* smull, smull2, sqdmull, sqdmull2, umlal, umlal2, umlsl, umlsl2, umull,
\* umull2 (size is the destination size)
smlal(e, Q, U, opcode, size, rd, rn, rm, Index) ==
  LET e1 == LOGMAN_THROW_A_FMT(e, size = i32Bit \/ size = i64Bit)
      e2 == IF size = i32Bit THEN LOGMAN_THROW_A_FMT(e1, rm < 16) ELSE e1
      EncodedSubRegSize == Narrower(size)
      e3 == LOGMAN_THROW_A_FMT(e2, Index < SubRegSizeInBits(EncodedSubRegSize, 0))
      H == IF size = i32Bit THEN (Index \div 4) % 2 ELSE (Index \div 2) % 2
      L == IF size = i32Bit THEN (Index \div 2) % 2 ELSE Index % 2
      M == IF size = i32Bit THEN Index % 2 ELSE 0
  IN ASIMDVectorXIndexedElement(e3, Q, U, L, M, opcode, H, EncodedSubRegSize, rm, rn, rd)

\* sdot, sudot, bfdot, usdot, udot (size is fixed by the mnemonic)
sdot(e, Q, U, opcode, size, rd, rn, rm, Index) ==
  LET e1 == LOGMAN_THROW_A_FMT(e, Index < 4)
      H == (Index \div 2) % 2
      L == Index % 2
      M == 0
  IN ASIMDVectorXIndexedElement(e1, Q, U, L, M, opcode, H, size, rm, rn, rd)

\* fmla, fmls, fmul (by element)
fmla(e, Q, opcode, size, rd, rn, rm, Index) ==
  LET e1 == LOGMAN_THROW_A_FMT(e, IsStandardFloatSize(size))
      e2 == LOGMAN_THROW_A_FMT(e1, Index < SubRegSizeInBits(size, 0))
      e3 == IF size = i16Bit \/ size = i32Bit THEN e2
            ELSE LOGMAN_THROW_A_FMT(e2, Q = 1)
      H == IF size = i16Bit THEN (Index \div 4) % 2
           ELSE IF size = i32Bit THEN (Index \div 2) % 2
           ELSE Index
      L == IF size = i16Bit THEN (Index \div 2) % 2
           ELSE IF size = i32Bit THEN Index % 2
           ELSE 0
      M == IF size = i16Bit THEN Index % 2 ELSE 0
      EncodedSubRegSize == IF size = i16Bit THEN i8Bit ELSE size
  IN ASIMDVectorXIndexedElement(e3, Q, 0, L, M, opcode, H, EncodedSubRegSize, rm, rn, rd)

\* fmlal, fmlal2, fmlsl, fmlsl2 (by element)
fmlal(e, Q, U, opcode, rd, rn, rm, Index) ==
  LET e1 == LOGMAN_THROW_A_FMT(e, Index < 8)
      H == (Index \div 4) % 2
      L == (Index \div 2) % 2
      M == Index % 2
  IN ASIMDVectorXIndexedElement(e1, Q, U, L, M, opcode, H, i32Bit, rm, rn, rd)

\* bfmlalb (Q = 0), bfmlalt (Q = 1)
bfmlalb(e, Q, rd, rn, rm, Index) ==
  LET e1 == LOGMAN_THROW_A_FMT(e, rm < 16)
      e2 == LOGMAN_THROW_A_FMT(e1, Index < 8)
      H == (Index \div 4) % 2
      L == (Index \div 2) % 2
      M == Index % 2
  IN ASIMDVectorXIndexedElement(e2, Q, 0, L, M, \b1111, H, i64Bit, rm, rn, rd)

\* size: the element size handed to the encoder by the mnemonics that take
\* no size argument (sdot, fmlal, bfmlalb forms); unused by the others.
IndexedElementTable ==
  [ smlal    |-> [form |-> "smlal",   reg |-> "D", U |-> 0, opcode |-> \b0010, size |-> i8Bit],
    smlal2   |-> [form |-> "smlal",   reg |-> "Q", U |-> 0, opcode |-> \b0010, size |-> i8Bit],
    sqdmlal  |-> [form |-> "smlal",   reg |-> "D", U |-> 0, opcode |-> \b0011, size |-> i8Bit],
    sqdmlal2 |-> [form |-> "smlal",   reg |-> "Q", U |-> 0, opcode |-> \b0011, size |-> i8Bit],
    smlsl    |-> [form |-> "smlal",   reg |-> "D", U |-> 0, opcode |-> \b0110, size |-> i8Bit],
    smlsl2   |-> [form |-> "smlal",   reg |-> "Q", U |-> 0, opcode |-> \b0110, size |-> i8Bit],
    sqdmlsl  |-> [form |-> "smlal",   reg |-> "D", U |-> 0, opcode |-> \b0111, size |-> i8Bit],
    sqdmlsl2 |-> [form |-> "smlal",   reg |-> "Q", U |-> 0, opcode |-> \b0111, size |-> i8Bit],
    mul      |-> [form |-> "mul",     reg |-> "T", U |-> 0, opcode |-> \b1000, size |-> i8Bit],
    smull    |-> [form |-> "smlal",   reg |-> "D", U |-> 0, opcode |-> \b1010, size |-> i8Bit],
    smull2   |-> [form |-> "smlal",   reg |-> "Q", U |-> 0, opcode |-> \b1010, size |-> i8Bit],
    sqdmull  |-> [form |-> "smlal",   reg |-> "D", U |-> 0, opcode |-> \b1011, size |-> i8Bit],
    sqdmull2 |-> [form |-> "smlal",   reg |-> "Q", U |-> 0, opcode |-> \b1011, size |-> i8Bit],
    sqdmulh  |-> [form |-> "mul",     reg |-> "T", U |-> 0, opcode |-> \b1100, size |-> i8Bit],
    sqrdmulh |-> [form |-> "mul",     reg |-> "T", U |-> 0, opcode |-> \b1101, size |-> i8Bit],
    sdot     |-> [form |-> "sdot",    reg |-> "T", U |-> 0, opcode |-> \b1110, size |-> i32Bit],
    sudot    |-> [form |-> "sdot",    reg |-> "T", U |-> 0, opcode |-> \b1111, size |-> i8Bit],
    bfdot    |-> [form |-> "sdot",    reg |-> "T", U |-> 0, opcode |-> \b1111, size |-> i16Bit],
    fmla     |-> [form |-> "fmla",    reg |-> "T", U |-> 0, opcode |-> \b0001, size |-> i8Bit],
    fmls     |-> [form |-> "fmla",    reg |-> "T", U |-> 0, opcode |-> \b0101, size |-> i8Bit],
    fmul     |-> [form |-> "fmla",    reg |-> "T", U |-> 0, opcode |-> \b1001, size |-> i8Bit],
    fmlal    |-> [form |-> "fmlal",   reg |-> "T", U |-> 0, opcode |-> \b0000, size |-> i32Bit],
    fmlal2   |-> [form |-> "fmlal",   reg |-> "T", U |-> 1, opcode |-> \b1000, size |-> i32Bit],
    fmlsl    |-> [form |-> "fmlal",   reg |-> "T", U |-> 0, opcode |-> \b0100, size |-> i32Bit],
    fmlsl2   |-> [form |-> "fmlal",   reg |-> "T", U |-> 1, opcode |-> \b1100, size |-> i32Bit],
    usdot    |-> [form |-> "sdot",    reg |-> "T", U |-> 0, opcode |-> \b1111, size |-> i32Bit],
    bfmlalb  |-> [form |-> "bfmlalb", reg |-> "D", U |-> 0, opcode |-> \b1111, size |-> i64Bit],
    bfmlalt  |-> [form |-> "bfmlalb", reg |-> "Q", U |-> 0, opcode |-> \b1111, size |-> i64Bit],
    mla      |-> [form |-> "mul",     reg |-> "T", U |-> 1, opcode |-> \b0000, size |-> i8Bit],
    umlal    |-> [form |-> "smlal",   reg |-> "D", U |-> 1, opcode |-> \b0010, size |-> i8Bit],
    umlal2   |-> [form |-> "smlal",   reg |-> "Q", U |-> 1, opcode |-> \b0010, size |-> i8Bit],
    mls      |-> [form |-> "mul",     reg |-> "T", U |-> 1, opcode |-> \b0100, size |-> i8Bit],
    umlsl    |-> [form |-> "smlal",   reg |-> "D", U |-> 1, opcode |-> \b0110, size |-> i8Bit],
    umlsl2   |-> [form |-> "smlal",   reg |-> "Q", U |-> 1, opcode |-> \b0110, size |-> i8Bit],
    umull    |-> [form |-> "smlal",   reg |-> "D", U |-> 1, opcode |-> \b1010, size |-> i8Bit],
    umull2   |-> [form |-> "smlal",   reg |-> "Q", U |-> 1, opcode |-> \b1010, size |-> i8Bit],
    sqrdmlah |-> [form |-> "mul",     reg |-> "T", U |-> 1, opcode |-> \b1101, size |-> i8Bit],
    udot     |-> [form |-> "sdot",    reg |-> "T", U |-> 1, opcode |-> \b1110, size |-> i32Bit],
    sqrdmlsh |-> [form |-> "mul",     reg |-> "T", U |-> 1, opcode |-> \b1111, size |-> i8Bit] ]

IndexedElementMnemonics == DOMAIN IndexedElementTable

\* The call c of a by-element mnemonic on emitter e.
IndexedElement(e, c) ==
  LET t == IndexedElementTable[c.mn] IN
  CASE t.form = "mul"     -> mul(e, c.Q, t.U, t.opcode, c.size, c.rd, c.rn, c.rm, c.imm)
    [] t.form = "smlal"   -> smlal(e, c.Q, t.U, t.opcode, c.size, c.rd, c.rn, c.rm, c.imm)
    [] t.form = "sdot"    -> sdot(e, c.Q, t.U, t.opcode, t.size, c.rd, c.rn, c.rm, c.imm)
    [] t.form = "fmla"    -> fmla(e, c.Q, t.opcode, c.size, c.rd, c.rn, c.rm, c.imm)
    [] t.form = "fmlal"   -> fmlal(e, c.Q, t.U, t.opcode, c.rd, c.rn, c.rm, c.imm)
    [] t.form = "bfmlalb" -> bfmlalb(e, c.Q, c.rd, c.rn, c.rm, c.imm)

----------------------------------------------------------------------------
(* Advanced SIMD three same (integer) and two-register miscellaneous       *)
(* (narrowing): the mnemonics.                                             *)

\* shadd, srhadd, shsub, smax, smin, sabd, saba, mla, mul, smaxp, sminp,
\* uhadd, urhadd, uhsub, uqsub, uqshl, uqrshl, umax, umin, uabd, uaba, mls,
\* umaxp, uminp
shadd(e, Q, U, opcode, size, rd, rn, rm) ==
  LET e1 == LOGMAN_THROW_A_FMT(e, size # i64Bit)
  IN ASIMD3Same(e1, Q, U, size, opcode, rd, rn, rm)

\* sqadd, sqsub, cmgt, cmge, sshl, sqshl, srshl, sqrshl, add, cmtst, addp,
\* cmhi, cmhs, ushl, urshl, sub, cmeq
sqadd(e, Q, U, opcode, size, rd, rn, rm) ==
  LET e1 == LOGMAN_THROW_A_FMT(e, Q = 1 \/ size # i64Bit)
  IN ASIMD3Same(e1, Q, U, size, opcode, rd, rn, rm)

uqadd(e, Q, size, rd, rn, rm) ==
  ASIMD3Same(e, Q, 1, size, \b00001, rd, rn, rm)

\* sqdmulh, sqrdmulh (vector)
sqdmulh(e, Q, U, opcode, size, rd, rn, rm) ==
  LET e1 == LOGMAN_THROW_A_FMT(e, size # i8Bit)
      e2 == LOGMAN_THROW_A_FMT(e1, size # i64Bit)
  IN ASIMD3Same(e2, Q, U, size, opcode, rd, rn, rm)

orr(e, Q, rd, rn, rm) ==
  ASIMD3Same(e, Q, 0, i32Bit, \b00011, rd, rn, rm)

\* A variant of mov that emits an orr of its own and forwards to orr as well.
mov_AndForward(e, Q, rd, rn) == orr(orr(e, Q, rd, rn, rn), Q, rd, rn, rn)

mov(e, Q, rd, rn) == orr(e, Q, rd, rn, rn)

ThreeSameTable ==
  [ shadd    |-> [form |-> "shadd",   U |-> 0, opcode |-> \b00000],
    sqadd    |-> [form |-> "sqadd",   U |-> 0, opcode |-> \b00001],
    srhadd   |-> [form |-> "shadd",   U |-> 0, opcode |-> \b00010],
    shsub    |-> [form |-> "shadd",   U |-> 0, opcode |-> \b00100],
    sqsub    |-> [form |-> "sqadd",   U |-> 0, opcode |-> \b00101],
    cmgt     |-> [form |-> "sqadd",   U |-> 0, opcode |-> \b00110],
    cmge     |-> [form |-> "sqadd",   U |-> 0, opcode |-> \b00111],
    sshl     |-> [form |-> "sqadd",   U |-> 0, opcode |-> \b01000],
    sqshl    |-> [form |-> "sqadd",   U |-> 0, opcode |-> \b01001],
    srshl    |-> [form |-> "sqadd",   U |-> 0, opcode |-> \b01010],
    sqrshl   |-> [form |-> "sqadd",   U |-> 0, opcode |-> \b01011],
    smax     |-> [form |-> "shadd",   U |-> 0, opcode |-> \b01100],
    smin     |-> [form |-> "shadd",   U |-> 0, opcode |-> \b01101],
    sabd     |-> [form |-> "shadd",   U |-> 0, opcode |-> \b01110],
    saba     |-> [form |-> "shadd",   U |-> 0, opcode |-> \b01111],
    add      |-> [form |-> "sqadd",   U |-> 0, opcode |-> \b10000],
    cmtst    |-> [form |-> "sqadd",   U |-> 0, opcode |-> \b10001],
    mla      |-> [form |-> "shadd",   U |-> 0, opcode |-> \b10010],
    mul      |-> [form |-> "shadd",   U |-> 0, opcode |-> \b10011],
    smaxp    |-> [form |-> "shadd",   U |-> 0, opcode |-> \b10100],
    sminp    |-> [form |-> "shadd",   U |-> 0, opcode |-> \b10101],
    sqdmulh  |-> [form |-> "sqdmulh", U |-> 0, opcode |-> \b10110],
    addp     |-> [form |-> "sqadd",   U |-> 0, opcode |-> \b10111],
    orr      |-> [form |-> "orr",     U |-> 0, opcode |-> \b00011],
    mov      |-> [form |-> "mov",     U |-> 0, opcode |-> \b00011],
    uhadd    |-> [form |-> "shadd",   U |-> 1, opcode |-> \b00000],
    uqadd    |-> [form |-> "uqadd",   U |-> 1, opcode |-> \b00001],
    urhadd   |-> [form |-> "shadd",   U |-> 1, opcode |-> \b00010],
    uhsub    |-> [form |-> "shadd",   U |-> 1, opcode |-> \b00100],
    uqsub    |-> [form |-> "shadd",   U |-> 1, opcode |-> \b00101],
    cmhi     |-> [form |-> "sqadd",   U |-> 1, opcode |-> \b00110],
    cmhs     |-> [form |-> "sqadd",   U |-> 1, opcode |-> \b00111],
    ushl     |-> [form |-> "sqadd",   U |-> 1, opcode |-> \b01000],
    uqshl    |-> [form |-> "shadd",   U |-> 1, opcode |-> \b01001],
    urshl    |-> [form |-> "sqadd",   U |-> 1, opcode |-> \b01010],
    uqrshl   |-> [form |-> "shadd",   U |-> 1, opcode |-> \b01011],
    umax     |-> [form |-> "shadd",   U |-> 1, opcode |-> \b01100],
    umin     |-> [form |-> "shadd",   U |-> 1, opcode |-> \b01101],
    uabd     |-> [form |-> "shadd",   U |-> 1, opcode |-> \b01110],
    uaba     |-> [form |-> "shadd",   U |-> 1, opcode |-> \b01111],
    sub      |-> [form |-> "sqadd",   U |-> 1, opcode |-> \b10000],
    cmeq     |-> [form |-> "sqadd",   U |-> 1, opcode |-> \b10001],
    mls      |-> [form |-> "shadd",   U |-> 1, opcode |-> \b10010],
    umaxp    |-> [form |-> "shadd",   U |-> 1, opcode |-> \b10100],
    uminp    |-> [form |-> "shadd",   U |-> 1, opcode |-> \b10101],
    sqrdmulh |-> [form |-> "sqdmulh", U |-> 1, opcode |-> \b10110] ]

ThreeSameMnemonics == DOMAIN ThreeSameTable

\* The call c of a three-same mnemonic on emitter e.
ThreeSame(e, c) ==
  LET t == ThreeSameTable[c.mn] IN
  CASE t.form = "shadd"   -> shadd(e, c.Q, t.U, t.opcode, c.size, c.rd, c.rn, c.rm)
    [] t.form = "sqadd"   -> sqadd(e, c.Q, t.U, t.opcode, c.size, c.rd, c.rn, c.rm)
    [] t.form = "uqadd"   -> uqadd(e, c.Q, c.size, c.rd, c.rn, c.rm)
    [] t.form = "sqdmulh" -> sqdmulh(e, c.Q, t.U, t.opcode, c.size, c.rd, c.rn, c.rm)
    [] t.form = "orr"     -> orr(e, c.Q, c.rd, c.rn, c.rm)
    [] t.form = "mov"     -> mov(e, c.Q, c.rd, c.rn)

\* xtn, xtn2, sqxtn, sqxtn2, sqxtun, sqxtun2 (size is the destination size)
xtn(e, Q, U, opcode, size, rd, rn) ==
  LET e1 == LOGMAN_THROW_A_FMT(e, size # i64Bit)
  IN ASIMD2RegMisc(e1, Q, U, size, opcode, rd, rn)

\* uqxtn (Q = 0), uqxtn2 (Q = 1) (size is the destination size)
uqxtn(e, Q, size, rd, rn) ==
  ASIMD2RegMisc(e, Q, 1, size, \b10100, rd, rn)

TwoRegMiscTable ==
  [ xtn     |-> [form |-> "xtn",   reg |-> "D", U |-> 0, opcode |-> \b10010],
    xtn2    |-> [form |-> "xtn",   reg |-> "Q", U |-> 0, opcode |-> \b10010],
    sqxtn   |-> [form |-> "xtn",   reg |-> "D", U |-> 0, opcode |-> \b10100],
    sqxtn2  |-> [form |-> "xtn",   reg |-> "Q", U |-> 0, opcode |-> \b10100],
    sqxtun  |-> [form |-> "xtn",   reg |-> "D", U |-> 1, opcode |-> \b10010],
    sqxtun2 |-> [form |-> "xtn",   reg |-> "Q", U |-> 1, opcode |-> \b10010],
    uqxtn   |-> [form |-> "uqxtn", reg |-> "D", U |-> 1, opcode |-> \b10100],
    uqxtn2  |-> [form |-> "uqxtn", reg |-> "Q", U |-> 1, opcode |-> \b10100] ]

TwoRegMiscMnemonics == DOMAIN TwoRegMiscTable

\* The call c of a two-register-miscellaneous mnemonic on emitter e.
TwoRegMisc(e, c) ==
  LET t == TwoRegMiscTable[c.mn] IN
  CASE t.form = "xtn"   -> xtn(e, c.Q, t.U, t.opcode, c.size, c.rd, c.rn)
    [] t.form = "uqxtn" -> uqxtn(e, c.Q, c.size, c.rd, c.rn)

----------------------------------------------------------------------------
(* Advanced SIMD modified immediate.  The 64-bit immediate of movi is a    *)
(* function from byte numbers 0..7 to byte values.                         *)

\* A variant of the encoder that places immediate bits 7:5 one bit higher.
ASIMDModifiedImm_HighBitsAt17(e, Q, op, cmode, o2, imm, rd) ==
  LET Instr == Shl(Bits(\b0000111100000000000001), 10)
                 \cup QBit(Q)
                 \cup Shl(Bits(op), 29)
                 \cup Shl(Bits((imm \div 128) % 2), 19)
                 \cup Shl(Bits((imm \div 64) % 2), 18)
                 \cup Shl(Bits((imm \div 32) % 2), 17)
                 \cup Shl(Bits(cmode), 12)
                 \cup Shl(Bits(o2), 11)
                 \cup Shl(Bits((imm \div 16) % 2), 9)
                 \cup Shl(Bits((imm \div 8) % 2), 8)
                 \cup Shl(Bits((imm \div 4) % 2), 7)
                 \cup Shl(Bits((imm \div 2) % 2), 6)
                 \cup Shl(Bits(imm % 2), 5)
                 \cup Encode_rd(rd)
  IN dc32(e, Instr)

ASIMDModifiedImm(e, Q, op, cmode, o2, imm, rd) ==
  LET Instr == Shl(Bits(\b0000111100000000000001), 10)
                 \cup QBit(Q)
                 \cup Shl(Bits(op), 29)
                 \cup Shl(Bits((imm \div 128) % 2), 18)
                 \cup Shl(Bits((imm \div 64) % 2), 17)
                 \cup Shl(Bits((imm \div 32) % 2), 16)
                 \cup Shl(Bits(cmode), 12)
                 \cup Shl(Bits(o2), 11)
                 \cup Shl(Bits((imm \div 16) % 2), 9)
                 \cup Shl(Bits((imm \div 8) % 2), 8)
                 \cup Shl(Bits((imm \div 4) % 2), 7)
                 \cup Shl(Bits((imm \div 2) % 2), 6)
                 \cup Shl(Bits(imm % 2), 5)
                 \cup Encode_rd(rd)
  IN dc32(e, Instr)

\* (Imm & ~0xFF) == 0
FitsInByte(Imm) == \A i \in 1..7 : Imm[i] = 0

\* A variant of movi_NewImm that numbers the bytes from the top.
RECURSIVE movi_NewImm_FromTop(_, _)
movi_NewImm_FromTop(Imm, i) ==
  IF i = 8 THEN 0
  ELSE (IF Imm[i] = 255 THEN Pow2(7 - i) ELSE 0) + movi_NewImm_FromTop(Imm, i + 1)

\* The loop of movi over the bytes i..7 of a 64-bit immediate: NewImm has
\* bit i set for each byte i that is 0xFF.
RECURSIVE movi_NewImm(_, _)
movi_NewImm(Imm, i) ==
  IF i = 8 THEN 0
  ELSE (IF Imm[i] = 255 THEN Pow2(i) ELSE 0) + movi_NewImm(Imm, i + 1)

movi(e, Q, size, rd, Imm, Shift) ==
  LET e1 == LOGMAN_THROW_A_FMT(e, size \in {i8Bit, i16Bit, i32Bit, i64Bit})
  IN CASE size = i8Bit ->
            LET e2 == LOGMAN_THROW_A_FMT(e1, Shift = 0)
                e3 == LOGMAN_THROW_A_FMT(e2, FitsInByte(Imm))
            IN ASIMDModifiedImm(e3, Q, 0, \b1110, 0, Imm[0], rd)
       [] size = i16Bit ->
            LET e2 == LOGMAN_THROW_A_FMT(e1, Shift = 0 \/ Shift = 8)
                e3 == LOGMAN_THROW_A_FMT(e2, FitsInByte(Imm))
                cmode == \b1000 + (IF Shift # 0 THEN \b10 ELSE \b00)
            IN ASIMDModifiedImm(e3, Q, 0, cmode, 0, Imm[0], rd)
       [] size = i32Bit ->
            LET e2 == LOGMAN_THROW_A_FMT(e1, Shift \in {0, 8, 16, 24})
                e3 == LOGMAN_THROW_A_FMT(e2, FitsInByte(Imm))
                cmode == (Shift \div 8) * 2
            IN ASIMDModifiedImm(e3, Q, 0, cmode, 0, Imm[0], rd)
       [] size = i64Bit ->
            LET e2 == LOGMAN_THROW_A_FMT(e1, Shift = 0)
                e3 == LOGMAN_THROW_A_FMT(e2, \A i \in 0..7 : Imm[i] = 0 \/ Imm[i] = 255)
            IN ASIMDModifiedImm(e3, Q, 1, \b1110, 0, movi_NewImm(Imm, 0), rd)
       [] OTHER -> e1

\* The call c of a modified-immediate mnemonic on emitter e.
ModifiedImm(e, c) == movi(e, c.Q, c.size, c.rd, c.Imm, c.imm)

----------------------------------------------------------------------------
(* Floating-point mnemonics on the three-same, two-register-miscellaneous  *)
(* and across-lanes templates.  Half precision has templates of its own.   *)

\* Advanced SIMD three same (FP16)
ASIMDThreeSameFP16(e, Q, U, a, opcode, rm, rn, rd) ==
  LET Instr == Shl(Bits(\b0000111001000000000001), 10)
                 \cup QBit(Q)
                 \cup Shl(Bits(U), 29)
                 \cup Shl(Bits(a), 23)
                 \cup Shl(Bits(rm), 16)
                 \cup Shl(Bits(opcode), 11)
                 \cup Shl(Bits(rn), 5)
                 \cup Bits(rd)
  IN dc32(e, Instr)

\* Advanced SIMD two-register miscellaneous (FP16)
ASIMDTwoRegMiscFP16(e, Q, U, a, opcode, rn, rd) ==
  LET Instr == Shl(Bits(\b0000111001111000000010), 10)
                 \cup QBit(Q)
                 \cup Shl(Bits(U), 29)
                 \cup Shl(Bits(a), 23)
                 \cup Shl(Bits(opcode), 12)
                 \cup Shl(Bits(rn), 5)
                 \cup Bits(rd)
  IN dc32(e, Instr)

\* Advanced SIMD across lanes
ASIMDAcrossLanes(e, Q, U, size, opcode, rd, rn) ==
  LET Instr == Shl(Bits(\b0000111000110000000010), 10)
                 \cup QBit(Q)
                 \cup Shl(Bits(U), 29)
                 \cup Shl(Bits(size), 22)
                 \cup Shl(Bits(opcode), 12)
                 \cup Encode_rn(rn)
                 \cup Encode_rd(rd)
  IN dc32(e, Instr)

\* size == i64Bit ? i16Bit : i8Bit
ConvertedSize(size) == IF size = i64Bit THEN i16Bit ELSE i8Bit

\* A variant of fsub that remaps the size the way fadd does.
fsub_Converted(e, Q, U, opcode, size, rd, rn, rm) ==
  LET e1 == LOGMAN_THROW_A_FMT(e, Q = 1 \/ size # i64Bit)
      e2 == LOGMAN_THROW_A_FMT(e1, IsStandardFloatSize(size))
  IN IF size = i16Bit
     THEN ASIMDThreeSameFP16(e2, Q, U, 1, opcode % 8, rm, rn, rd)
     ELSE ASIMD3Same(e2, Q, U, ConvertedSize(size), opcode, rd, rn, rm)

\* fmaxnm, fmla, fadd, fmulx, fcmeq, fmax, frecps, fmaxnmp, faddp, fmul,
\* fcmge, facge, fmaxp, fdiv (three same).  The FP16 opcode is the low three
\* bits of the opcode.
fadd(e, Q, U, opcode, size, rd, rn, rm) ==
  LET e1 == LOGMAN_THROW_A_FMT(e, Q = 1 \/ size # i64Bit)
      e2 == LOGMAN_THROW_A_FMT(e1, IsStandardFloatSize(size))
  IN IF size = i16Bit
     THEN ASIMDThreeSameFP16(e2, Q, U, 0, opcode % 8, rm, rn, rd)
     ELSE ASIMD3Same(e2, Q, U, ConvertedSize(size), opcode, rd, rn, rm)

\* fminnm, fmls, fsub, fmin, frsqrts, fminnmp, fabd, fcmgt, facgt, fminp
fsub(e, Q, U, opcode, size, rd, rn, rm) ==
  LET e1 == LOGMAN_THROW_A_FMT(e, Q = 1 \/ size # i64Bit)
      e2 == LOGMAN_THROW_A_FMT(e1, IsStandardFloatSize(size))
  IN IF size = i16Bit
     THEN ASIMDThreeSameFP16(e2, Q, U, 1, opcode % 8, rm, rn, rd)
     ELSE ASIMD3Same(e2, Q, U, size, opcode, rd, rn, rm)

FPThreeSameTable ==
  [
    fmaxnm   |-> [form |-> "fadd", U |-> 0, opcode |-> \b11000],
    fmla     |-> [form |-> "fadd", U |-> 0, opcode |-> \b11001],
    fadd     |-> [form |-> "fadd", U |-> 0, opcode |-> \b11010],
    fmulx    |-> [form |-> "fadd", U |-> 0, opcode |-> \b11011],
    fcmeq    |-> [form |-> "fadd", U |-> 0, opcode |-> \b11100],
    fmax     |-> [form |-> "fadd", U |-> 0, opcode |-> \b11110],
    frecps   |-> [form |-> "fadd", U |-> 0, opcode |-> \b11111],
    fminnm   |-> [form |-> "fsub", U |-> 0, opcode |-> \b11000],
    fmls     |-> [form |-> "fsub", U |-> 0, opcode |-> \b11001],
    fsub     |-> [form |-> "fsub", U |-> 0, opcode |-> \b11010],
    fmin     |-> [form |-> "fsub", U |-> 0, opcode |-> \b11110],
    frsqrts  |-> [form |-> "fsub", U |-> 0, opcode |-> \b11111],
    fmaxnmp  |-> [form |-> "fadd", U |-> 1, opcode |-> \b11000],
    faddp    |-> [form |-> "fadd", U |-> 1, opcode |-> \b11010],
    fmul     |-> [form |-> "fadd", U |-> 1, opcode |-> \b11011],
    fcmge    |-> [form |-> "fadd", U |-> 1, opcode |-> \b11100],
    facge    |-> [form |-> "fadd", U |-> 1, opcode |-> \b11101],
    fmaxp    |-> [form |-> "fadd", U |-> 1, opcode |-> \b11110],
    fdiv     |-> [form |-> "fadd", U |-> 1, opcode |-> \b11111],
    fminnmp  |-> [form |-> "fsub", U |-> 1, opcode |-> \b11000],
    fabd     |-> [form |-> "fsub", U |-> 1, opcode |-> \b11010],
    fcmgt    |-> [form |-> "fsub", U |-> 1, opcode |-> \b11100],
    facgt    |-> [form |-> "fsub", U |-> 1, opcode |-> \b11101],
    fminp    |-> [form |-> "fsub", U |-> 1, opcode |-> \b11110] ]

FPThreeSameMnemonics == DOMAIN FPThreeSameTable

\* The call c of a floating-point three-same mnemonic on emitter e.
FPThreeSame(e, c) ==
  LET t == FPThreeSameTable[c.mn] IN
  CASE t.form = "fadd" -> fadd(e, c.Q, t.U, t.opcode, c.size, c.rd, c.rn, c.rm)
    [] t.form = "fsub" -> fsub(e, c.Q, t.U, t.opcode, c.size, c.rd, c.rn, c.rm)

\* frintn, frintm, fcvtns, fcvtms, fcvtas, scvtf (two-register misc.)
frintn(e, Q, U, opcode, size, rd, rn) ==
  LET e1 == LOGMAN_THROW_A_FMT(e, Q = 1 \/ size # i64Bit)
      e2 == LOGMAN_THROW_A_FMT(e1, IsStandardFloatSize(size))
  IN IF size = i16Bit
     THEN ASIMDTwoRegMiscFP16(e2, Q, U, 0, opcode, rn, rd)
     ELSE ASIMD2RegMisc(e2, Q, U, ConvertedSize(size), opcode, rd, rn)

\* frinta, frintx, fcvtnu, fcvtmu, fcvtau, ucvtf
frinta(e, Q, U, opcode, size, rd, rn) ==
  LET e1 == LOGMAN_THROW_A_FMT(e, IsStandardFloatSize(size))
  IN IF size = i16Bit
     THEN ASIMDTwoRegMiscFP16(e1, Q, U, 0, opcode, rn, rd)
     ELSE ASIMD2RegMisc(e1, Q, U, ConvertedSize(size), opcode, rd, rn)

\* fcmgt, fcmeq, fcmlt (against zero), fabs, frintp, frintz, fcvtps,
\* fcvtzs, fcmge, fcmle (against zero), fneg, frinti, fcvtpu, fcvtzu,
\* frsqrte, fsqrt
fabs(e, Q, U, opcode, size, rd, rn) ==
  LET e1 == LOGMAN_THROW_A_FMT(e, Q = 1 \/ size # i64Bit)
      e2 == LOGMAN_THROW_A_FMT(e1, IsStandardFloatSize(size))
  IN IF size = i16Bit
     THEN ASIMDTwoRegMiscFP16(e2, Q, U, 1, opcode, rn, rd)
     ELSE ASIMD2RegMisc(e2, Q, U, size, opcode, rd, rn)

frecpe(e, Q, U, opcode, size, rd, rn) ==
  LET e1 == LOGMAN_THROW_A_FMT(e, IsStandardFloatSize(size))
  IN IF size = i16Bit
     THEN ASIMDTwoRegMiscFP16(e1, Q, U, 1, opcode, rn, rd)
     ELSE ASIMD2RegMisc(e1, Q, U, size, opcode, rd, rn)

FPTwoRegMiscTable ==
  [
    frintn   |-> [form |-> "frintn", U |-> 0, opcode |-> \b11000],
    frintm   |-> [form |-> "frintn", U |-> 0, opcode |-> \b11001],
    fcvtns   |-> [form |-> "frintn", U |-> 0, opcode |-> \b11010],
    fcvtms   |-> [form |-> "frintn", U |-> 0, opcode |-> \b11011],
    fcvtas   |-> [form |-> "frintn", U |-> 0, opcode |-> \b11100],
    scvtf    |-> [form |-> "frintn", U |-> 0, opcode |-> \b11101],
    fcmgt    |-> [form |-> "fabs", U |-> 0, opcode |-> \b01100],
    fcmeq    |-> [form |-> "fabs", U |-> 0, opcode |-> \b01101],
    fcmlt    |-> [form |-> "fabs", U |-> 0, opcode |-> \b01110],
    fabs     |-> [form |-> "fabs", U |-> 0, opcode |-> \b01111],
    frintp   |-> [form |-> "fabs", U |-> 0, opcode |-> \b11000],
    frintz   |-> [form |-> "fabs", U |-> 0, opcode |-> \b11001],
    fcvtps   |-> [form |-> "fabs", U |-> 0, opcode |-> \b11010],
    fcvtzs   |-> [form |-> "fabs", U |-> 0, opcode |-> \b11011],
    frecpe   |-> [form |-> "frecpe", U |-> 0, opcode |-> \b11101],
    frinta   |-> [form |-> "frinta", U |-> 1, opcode |-> \b11000],
    frintx   |-> [form |-> "frinta", U |-> 1, opcode |-> \b11001],
    fcvtnu   |-> [form |-> "frinta", U |-> 1, opcode |-> \b11010],
    fcvtmu   |-> [form |-> "frinta", U |-> 1, opcode |-> \b11011],
    fcvtau   |-> [form |-> "frinta", U |-> 1, opcode |-> \b11100],
    ucvtf    |-> [form |-> "frinta", U |-> 1, opcode |-> \b11101],
    fcmge    |-> [form |-> "fabs", U |-> 1, opcode |-> \b01100],
    fcmle    |-> [form |-> "fabs", U |-> 1, opcode |-> \b01101],
    fneg     |-> [form |-> "fabs", U |-> 1, opcode |-> \b01111],
    frinti   |-> [form |-> "fabs", U |-> 1, opcode |-> \b11001],
    fcvtpu   |-> [form |-> "fabs", U |-> 1, opcode |-> \b11010],
    fcvtzu   |-> [form |-> "fabs", U |-> 1, opcode |-> \b11011],
    frsqrte  |-> [form |-> "fabs", U |-> 1, opcode |-> \b11101],
    fsqrt    |-> [form |-> "fabs", U |-> 1, opcode |-> \b11111] ]

FPTwoRegMiscMnemonics == DOMAIN FPTwoRegMiscTable

\* The call c of a floating-point two-register-misc. mnemonic on emitter e.
FPTwoRegMisc(e, c) ==
  LET t == FPTwoRegMiscTable[c.mn] IN
  CASE t.form = "frintn" -> frintn(e, c.Q, t.U, t.opcode, c.size, c.rd, c.rn)
    [] t.form = "frinta" -> frinta(e, c.Q, t.U, t.opcode, c.size, c.rd, c.rn)
    [] t.form = "fabs"   -> fabs(e, c.Q, t.U, t.opcode, c.size, c.rd, c.rn)
    [] t.form = "frecpe" -> frecpe(e, c.Q, t.U, t.opcode, c.size, c.rd, c.rn)

\* fmaxnmv (opcode 0b01100), fmaxv (0b01111)
fmaxnmv(e, Q, opcode, size, rd, rn) ==
  LET e1 == LOGMAN_THROW_A_FMT(e, Q = 1 \/ size # i32Bit)
      e2 == LOGMAN_THROW_A_FMT(e1, size # i8Bit /\ size # i64Bit)
      U == IF size = i16Bit THEN 0 ELSE 1
  IN ASIMDAcrossLanes(e2, Q, U, ConvertedSize(size), opcode, rd, rn)

\* fminnmv (opcode 0b01100), fminv (0b01111)
fminnmv(e, Q, opcode, size, rd, rn) ==
  LET e1 == LOGMAN_THROW_A_FMT(e, Q = 1 \/ size # i32Bit)
      e2 == LOGMAN_THROW_A_FMT(e1, size # i8Bit /\ size # i64Bit)
      size1 == IF size = i64Bit THEN i64Bit ELSE i32Bit
      U == IF size = i16Bit THEN 0 ELSE 1
  IN ASIMDAcrossLanes(e2, Q, U, size1, opcode, rd, rn)

FPAcrossLanesTable ==
  [ fmaxnmv |-> [form |-> "fmaxnmv", opcode |-> \b01100],
    fmaxv   |-> [form |-> "fmaxnmv", opcode |-> \b01111],
    fminnmv |-> [form |-> "fminnmv", opcode |-> \b01100],
    fminv   |-> [form |-> "fminnmv", opcode |-> \b01111] ]

FPAcrossLanesMnemonics == DOMAIN FPAcrossLanesTable

\* The call c of a floating-point across-lanes mnemonic on emitter e.
FPAcrossLanes(e, c) ==
  LET t == FPAcrossLanesTable[c.mn] IN
  CASE t.form = "fmaxnmv" -> fmaxnmv(e, c.Q, t.opcode, c.size, c.rd, c.rn)
    [] t.form = "fminnmv" -> fminnmv(e, c.Q, t.opcode, c.size, c.rd, c.rn)

----------------------------------------------------------------------------
(* Bitwise NOT and its alias. *)

not_(e, Q, size, rd, rn) ==
  LET e1 == LOGMAN_THROW_A_FMT(e, size = i8Bit)
  IN ASIMD2RegMisc(e1, Q, 1, i8Bit, \b00101, rd, rn)

mvn(e, Q, size, rd, rn) ==
  LET e1 == LOGMAN_THROW_A_FMT(e, size = i8Bit)
  IN ASIMD2RegMisc(e1, Q, 1, i8Bit, \b00101, rd, rn)

BitwiseNotMnemonics == {"not_", "mvn"}

\* The call c of not_ or mvn on emitter e.
BitwiseNot(e, c) ==
  CASE c.mn = "not_" -> not_(e, c.Q, c.size, c.rd, c.rn)
    [] c.mn = "mvn"  -> mvn(e, c.Q, c.size, c.rd, c.rn)

----------------------------------------------------------------------------
(* Cryptographic three-register, imm2 *)

\* A variant of Crypto3RegImm without the check of index.
Crypto3RegImm_Unchecked(e, index, opcode, rm, rn, rd) ==
  LET Instr == Shl(Bits(\b110011100100000010), 14)
                 \cup Shl(Bits(rm), 16)
                 \cup Shl(Bits(index), 12)
                 \cup Shl(Bits(opcode), 10)
                 \cup Shl(Bits(rn), 5)
                 \cup Bits(rd)
  IN dc32(e, Instr)

Crypto3RegImm(e, index, opcode, rm, rn, rd) ==
  LET e1 == LOGMAN_THROW_A_FMT(e, index <= 3)
      Instr == Shl(Bits(\b110011100100000010), 14)
                 \cup Shl(Bits(rm), 16)
                 \cup Shl(Bits(index), 12)
                 \cup Shl(Bits(opcode), 10)
                 \cup Shl(Bits(rn), 5)
                 \cup Bits(rd)
  IN dc32(e1, Instr)

sm3tt1a(e, rd, rn, rm, index) == Crypto3RegImm(e, index, \b00, rm, rn, rd)

sm3tt1b(e, rd, rn, rm, index) == Crypto3RegImm(e, index, \b01, rm, rn, rd)

sm3tt2a(e, rd, rn, rm, index) == Crypto3RegImm(e, index, \b10, rm, rn, rd)

sm3tt2b(e, rd, rn, rm, index) == Crypto3RegImm(e, index, \b11, rm, rn, rd)

CryptoThreeRegImmMnemonics == {"sm3tt1a", "sm3tt1b", "sm3tt2a", "sm3tt2b"}

\* The call c of a cryptographic three-register imm2 mnemonic on emitter e.
CryptoThreeRegImm(e, c) ==
  CASE c.mn = "sm3tt1a" -> sm3tt1a(e, c.rd, c.rn, c.rm, c.imm)
    [] c.mn = "sm3tt1b" -> sm3tt1b(e, c.rd, c.rn, c.rm, c.imm)
    [] c.mn = "sm3tt2a" -> sm3tt2a(e, c.rd, c.rn, c.rm, c.imm)
    [] c.mn = "sm3tt2b" -> sm3tt2b(e, c.rd, c.rn, c.rm, c.imm)

----------------------------------------------------------------------------
(* Advanced SIMD three different: pmull and pmull2. *)

\* A variant of ASIMD3Different that reads the sink: after an earlier word it
\* carries that word's Rd in place of its own bit 31.
ASIMD3Different_ReadsSink(e, Q, U, opcode, size, rd, rn, rm) ==
  LET Instr == Shl(Bits(\b0000111000100000000000), 10)
                 \cup QBit(Q)
                 \cup Shl(Bits(U), 29)
                 \cup Shl(Bits(size), 22)
                 \cup Encode_rm(rm)
                 \cup Shl(Bits(opcode), 12)
                 \cup Encode_rn(rn)
                 \cup Encode_rd(rd)
                 \cup (IF e.sink # <<>> THEN {31} ELSE {})
  IN dc32(e, Instr)

ASIMD3Different(e, Q, U, opcode, size, rd, rn, rm) ==
  LET Instr == Shl(Bits(\b0000111000100000000000), 10)
                 \cup QBit(Q)
                 \cup Shl(Bits(U), 29)
                 \cup Shl(Bits(size), 22)
                 \cup Encode_rm(rm)
                 \cup Shl(Bits(opcode), 12)
                 \cup Encode_rn(rn)
                 \cup Encode_rd(rd)
  IN dc32(e, Instr)

\* pmull (Q = 0), pmull2 (Q = 1) (size is the destination size)
pmull(e, Q, size, rd, rn, rm) ==
  LET e1 == LOGMAN_THROW_A_FMT(e, size = i16Bit \/ size = i128Bit)
      ConvertedSize1 == Narrower(size)
  IN ASIMD3Different(e1, Q, 0, \b1110, ConvertedSize1, rd, rn, rm)

\* The call c of pmull or pmull2 on emitter e.
ThreeDifferent(e, c) ==
  CASE c.mn = "pmull"  -> pmull(e, 0, c.size, c.rd, c.rn, c.rm)
    [] c.mn = "pmull2" -> pmull(e, 1, c.size, c.rd, c.rn, c.rm)

----------------------------------------------------------------------------
(* Advanced SIMD copy and extract. *)

\* Advanced SIMD copy.  The encoder is defined outside this file; its
\* layout is that of the A64 class: imm5 in bits 20:16, imm4 in bits 14:11.
ASIMDScalarCopy(e, Q, op, imm5, imm4, rd, rn) ==
  LET Instr == Shl(Bits(\b0000111000000000000001), 10)
                 \cup Shl(Bits(Q), 30)
                 \cup Shl(Bits(op), 29)
                 \cup Shl(Bits(imm5), 16)
                 \cup Shl(Bits(imm4), 11)
                 \cup Shl(Bits(rn), 5)
                 \cup Bits(rd)
  IN dc32(e, Instr)

\* Advanced SIMD extract
ASIMDExtract(e, Q, op2, imm4, rd, rn, rm) ==
  LET Instr == Shl(Bits(\b00101110000), 21)
                 \cup Shl(Bits(Q), 30)
                 \cup Shl(Bits(op2), 22)
                 \cup Encode_rm(rm)
                 \cup Shl(Bits(imm4), 11)
                 \cup Encode_rn(rn)
                 \cup Encode_rd(rd)
  IN dc32(e, Instr)

\* A variant of ext with the bound of the Q form for both register widths.
ext_BoundOfQ(e, Q, rd, rn, rm, Index) ==
  LET e1 == LOGMAN_THROW_A_FMT(e, Index < 16)
  IN ASIMDExtract(e1, Q, \b00, Index, rd, rn, rm)

\* ext on Q registers (Q = 1) and on D registers (Q = 0)
ext(e, Q, rd, rn, rm, Index) ==
  LET e1 == LOGMAN_THROW_A_FMT(e, IF Q = 1 THEN Index < 16 ELSE Index < 8)
  IN ASIMDExtract(e1, Q, \b00, Index, rd, rn, rm)

\* A variant of dup (element) that shifts Index by SizeImm.
dup_ShiftBySize(e, Q, size, rd, rn, Index) ==
  LET e1 == LOGMAN_THROW_A_FMT(e, Q = 1 \/ size # i64Bit)
      SizeImm == size
      IndexShift == SizeImm
      ElementSize == Pow2(SizeImm)
      MaxIndexOfSize == 128 \div (ElementSize * 8)
      e2 == LOGMAN_THROW_A_FMT(e1, Index < MaxIndexOfSize)
      imm5 == Field(Shl(Bits(Index), IndexShift) \cup Bits(ElementSize), 31, 0)
  IN ASIMDScalarCopy(e2, Q, 0, imm5, \b0000, rd, rn)

\* dup (element)
dup(e, Q, size, rd, rn, Index) ==
  LET e1 == LOGMAN_THROW_A_FMT(e, Q = 1 \/ size # i64Bit)
      SizeImm == size
      IndexShift == SizeImm + 1
      ElementSize == Pow2(SizeImm)
      MaxIndexOfSize == 128 \div (ElementSize * 8)
      e2 == LOGMAN_THROW_A_FMT(e1, Index < MaxIndexOfSize)
      imm5 == Field(Shl(Bits(Index), IndexShift) \cup Bits(ElementSize), 31, 0)
  IN ASIMDScalarCopy(e2, Q, 0, imm5, \b0000, rd, rn)

\* smov to an X register (Q = 1: i8Bit, i16Bit, i32Bit) and to a W register
\* (Q = 0: i8Bit, i16Bit); the size is a template argument.
smov(e, Q, size, rd, rn, Index) ==
  LET SizeImm == size
      IndexShift == SizeImm + 1
      ElementSize == Pow2(SizeImm)
      MaxIndexOfSize == 128 \div (ElementSize * 8)
      e1 == LOGMAN_THROW_A_FMT(e, Index < MaxIndexOfSize)
      imm5 == Field(Shl(Bits(Index), IndexShift) \cup Bits(ElementSize), 31, 0)
  IN ASIMDScalarCopy(e1, Q, 0, imm5, \b0101, rd, rn)

\* umov; the size is a template argument, i8Bit .. i64Bit.
umov(e, size, rd, rn, Index) ==
  LET Q == IF size = i64Bit THEN 1 ELSE 0
      SizeImm == size
      IndexShift == SizeImm + 1
      ElementSize == Pow2(SizeImm)
      MaxIndexOfSize == 128 \div (ElementSize * 8)
      e1 == LOGMAN_THROW_A_FMT(e, Index < MaxIndexOfSize)
      imm5 == Field(Shl(Bits(Index), IndexShift) \cup Bits(ElementSize), 31, 0)
  IN ASIMDScalarCopy(e1, Q, 0, imm5, \b0111, rd, rn)

\* ins (general register)
ins(e, size, rd, Index, rn) ==
  LET SizeImm == size
      IndexShift == SizeImm + 1
      ElementSize == Pow2(SizeImm)
      MaxIndexOfSize == 128 \div (ElementSize * 8)
      e1 == LOGMAN_THROW_A_FMT(e, Index < MaxIndexOfSize)
      imm5 == Field(Shl(Bits(Index), IndexShift) \cup Bits(ElementSize), 31, 0)
  IN ASIMDScalarCopy(e1, 1, 0, imm5, \b0011, rd, rn)

\* ins (element)
ins_element(e, size, rd, Index, rn, Index2) ==
  LET SizeImm == size
      IndexShift == SizeImm + 1
      ElementSize == Pow2(SizeImm)
      MaxIndexOfSize == 128 \div (ElementSize * 8)
      e1 == LOGMAN_THROW_A_FMT(e, Index < MaxIndexOfSize)
      e2 == LOGMAN_THROW_A_FMT(e1, Index2 < MaxIndexOfSize)
      imm5 == Field(Shl(Bits(Index), IndexShift) \cup Bits(ElementSize), 31, 0)
      imm4 == Field(Shl(Bits(Index2), SizeImm), 31, 0)
  IN ASIMDScalarCopy(e2, 1, \b10, imm5, imm4, rd, rn)

\* The element sizes each lane-indexed copy can be called with: smov and
\* umov constrain their template argument, the others take any SubRegSize.
ScalarCopySizes(mn, Q) ==
  CASE mn = "smov" -> IF Q = 1 THEN {i8Bit, i16Bit, i32Bit} ELSE {i8Bit, i16Bit}
    [] mn = "umov" -> {i8Bit, i16Bit, i32Bit, i64Bit}
    [] OTHER -> SubRegSizes

ScalarCopyMnemonics == {"dup", "smov", "umov", "ins", "ins_element"}

\* The call c of a lane-indexed copy on emitter e.
ScalarCopy(e, c) ==
  CASE c.mn = "dup"  -> dup(e, c.Q, c.size, c.rd, c.rn, c.imm)
    [] c.mn = "smov" -> smov(e, c.Q, c.size, c.rd, c.rn, c.imm)
    [] c.mn = "umov" -> umov(e, c.size, c.rd, c.rn, c.imm)
    [] c.mn = "ins"  -> ins(e, c.size, c.rd, c.imm, c.rn)
    [] c.mn = "ins_element" -> ins_element(e, c.size, c.rd, c.imm, c.rn, c.Index2)

\* The call c of ext on emitter e.
Extract(e, c) == ext(e, c.Q, c.rd, c.rn, c.rm, c.imm)

----------------------------------------------------------------------------
(* Cryptographic AES *)

\* A variant of CryptoAES that places the opcode one bit lower.
CryptoAES_OpcodeAt11(e, opcode, rd, rn) ==
  LET Instr == Shl(Bits(\b0100111000101000000010), 10)
                 \cup Shl(Bits(opcode), 11)
                 \cup Encode_rn(rn)
                 \cup Encode_rd(rd)
  IN dc32(e, Instr)

CryptoAES(e, opcode, rd, rn) ==
  LET Instr == Shl(Bits(\b0100111000101000000010), 10)
                 \cup Shl(Bits(opcode), 12)
                 \cup Encode_rn(rn)
                 \cup Encode_rd(rd)
  IN dc32(e, Instr)

\* aese, aesd, aesmc, aesimc: each is CryptoAES with its opcode.
CryptoAESTable ==
  [ aese   |-> \b00100,
    aesd   |-> \b00101,
    aesmc  |-> \b00110,
    aesimc |-> \b00111 ]

\* The call c of an AES mnemonic on emitter e.
CryptoAESCall(e, c) == CryptoAES(e, CryptoAESTable[c.mn], c.rd, c.rn)

----------------------------------------------------------------------------
(* Advanced SIMD table lookup *)

ASIMDTable(e, Q, op2, len, op, rd, rn, rm) ==
  LET Instr == Shl(Bits(\b00001110000), 21)
                 \cup Shl(Bits(Q), 30)
                 \cup Shl(Bits(op2), 22)
                 \cup Encode_rm(rm)
                 \cup Shl(Bits(len), 13)
                 \cup Shl(Bits(op), 12)
                 \cup Encode_rn(rn)
                 \cup Encode_rd(rd)
  IN dc32(e, Instr)

\* AreVectorsSequential(first, args...): each register is numbered one above
\* the one before it, v0 following v31.  The helper is defined outside this
\* file.
AreVectorsSequential(rns) ==
  \A i \in 2 .. Len(rns) : rns[i] = (rns[i - 1] + 1) % 32

\* A variant of tbl that compares the first two table registers only.
tbl_FirstPairOnly(e, Q, op, rd, rns, rm) ==
  LET e1 == IF Len(rns) > 1
            THEN LOGMAN_THROW_A_FMT(e, AreVectorsSequential(SubSeq(rns, 1, 2)))
            ELSE e
  IN ASIMDTable(e1, Q, \b00, Len(rns) - 1, op, rd, rns[1], rm)

\* tbl (op = 0) and tbx (op = 1) on Q (Q = 1) and D (Q = 0) destinations,
\* with the table registers rns = <<rn>>, <<rn, rn2>>, <<rn, rn2, rn3>> or
\* <<rn, rn2, rn3, rn4>>: the overloads with more than one table register
\* check all of them, and len is their number less one.
tbl(e, Q, op, rd, rns, rm) ==
  LET e1 == IF Len(rns) > 1
            THEN LOGMAN_THROW_A_FMT(e, AreVectorsSequential(rns))
            ELSE e
  IN ASIMDTable(e1, Q, \b00, Len(rns) - 1, op, rd, rns[1], rm)

\* The call c of tbl or tbx on emitter e.
Table(e, c) == tbl(e, c.Q, IF c.mn = "tbx" THEN 1 ELSE 0, c.rd, c.rns, c.rm)

----------------------------------------------------------------------------
(* Conversion between floating-point and fixed-point (scalar). *)

\* Width in bits of a general register of size GPRSize ("i32Bit" or
\* "i64Bit"); defined outside this file.
RegSizeInBits(GPRSize) == IF GPRSize = "i64Bit" THEN 64 ELSE 32

ScalarConvertBetweenFPAndFixed(e, S, rmode, opcode, scale, GPRSize, ScalarSize, rn, rd) ==
  LET SF == IF GPRSize = "i64Bit" THEN {31} ELSE {}
      Instr == Shl(Bits(\b00011110000), 21)
                 \cup SF
                 \cup Shl(Bits(S), 29)
                 \cup Shl(Bits(ScalarSize), 22)
                 \cup Shl(Bits(rmode), 19)
                 \cup Shl(Bits(opcode), 16)
                 \cup Shl(scale, 10)
                 \cup Shl(Bits(rn), 5)
                 \cup Bits(rd)
  IN dc32(e, Instr)

\* A variant of the scalar conversions that counts the scale from the width
\* of the general register.
scvtf_fixed_ScaleFromWidth(e, rmode, opcode, ScalarSize, GPRSize, rd, rn, FractionalBits) ==
  LET e1 == LOGMAN_THROW_A_FMT(e, FractionalBits >= 1 /\ FractionalBits <= RegSizeInBits(GPRSize))
      Scale == Sub32(RegSizeInBits(GPRSize), FractionalBits)
      ConvertedSize1 == CASE ScalarSize = i64Bit -> \b01
                          [] ScalarSize = i32Bit -> \b00
                          [] ScalarSize = i16Bit -> \b11
                          [] OTHER -> 0
  IN ScalarConvertBetweenFPAndFixed(e1, 0, rmode, opcode, Scale, GPRSize, ConvertedSize1, rn, rd)

\* scvtf, ucvtf (general register to scalar float) and fcvtzs, fcvtzu (scalar
\* float to general register) with FractionalBits: one body, with the rmode
\* and opcode of ScalarFixedTable.
scvtf_fixed(e, rmode, opcode, ScalarSize, GPRSize, rd, rn, FractionalBits) ==
  LET e1 == LOGMAN_THROW_A_FMT(e, FractionalBits >= 1 /\ FractionalBits <= RegSizeInBits(GPRSize))
      Scale == Sub32(64, FractionalBits)
      ConvertedSize1 == CASE ScalarSize = i64Bit -> \b01
                          [] ScalarSize = i32Bit -> \b00
                          [] ScalarSize = i16Bit -> \b11
                          [] OTHER -> 0
  IN ScalarConvertBetweenFPAndFixed(e1, 0, rmode, opcode, Scale, GPRSize, ConvertedSize1, rn, rd)

ScalarFixedTable ==
  [ scvtf  |-> [rmode |-> \b00, opcode |-> \b010],
    ucvtf  |-> [rmode |-> \b00, opcode |-> \b011],
    fcvtzs |-> [rmode |-> \b11, opcode |-> \b000],
    fcvtzu |-> [rmode |-> \b11, opcode |-> \b001] ]

\* The call c of a scalar fixed-point conversion on emitter e.
ScalarFixed(e, c) ==
  LET t == ScalarFixedTable[c.mn]
  IN scvtf_fixed(e, t.rmode, t.opcode, c.size, c.GPRSize, c.rd, c.rn, c.imm)

----------------------------------------------------------------------------
(* Advanced SIMD load/store single structure. *)

Encode_rt(rt) == Bits(rt)

\* A variant of the encoder that places S one bit lower.  opcode, S and
\* size are words.
ASIMDLoadStore_SAt11(e, Op, L, R, opcode, S, size, rt, rn, rm) ==
  LET Instr == Op
                 \cup Shl(Bits(L), 22)
                 \cup Shl(Bits(R), 21)
                 \cup Encode_rm(rm)
                 \cup Shl(opcode, 13)
                 \cup Shl(S, 11)
                 \cup Shl(size, 10)
                 \cup Encode_rn(rn)
                 \cup Encode_rt(rt)
  IN dc32(e, Instr)

ASIMDLoadStore(e, Op, L, R, opcode, S, size, rt, rn, rm) ==
  LET Instr == Op
                 \cup Shl(Bits(L), 22)
                 \cup Shl(Bits(R), 21)
                 \cup Encode_rm(rm)
                 \cup Shl(opcode, 13)
                 \cup Shl(S, 12)
                 \cup Shl(size, 10)
                 \cup Encode_rn(rn)
                 \cup Encode_rt(rt)
  IN dc32(e, Instr)

\* ASIMDSTLD<size, Load, Count>(Op, Opcode, rt, Index, rn, rm): one lane of
\* Count consecutive registers.  Op, opcode, S and Size are words.
ASIMDSTLD(e, size, Load, Count, Op, Opcode, rt, Index, rn, rm) ==
  LET e1 == LOGMAN_THROW_A_FMT(e, \/ (size = i8Bit /\ Index < 16)
                                  \/ (size = i16Bit /\ Index < 8)
                                  \/ (size = i32Bit /\ Index < 4)
                                  \/ (size = i64Bit /\ Index < 2))
      selem == Count - 1
      opcode == Bits(Opcode) \cup Bits(selem \div 2)
      I == Bits(Index)
      Q == CASE size = i8Bit  -> Shl(Shr(And(I, Bits(\b1000)), 3), 30)
             [] size = i16Bit -> Shl(Shr(And(I, Bits(\b0100)), 2), 30)
             [] size = i32Bit -> Shl(Shr(And(I, Bits(\b0010)), 1), 30)
             [] size = i64Bit -> Shl(And(I, Bits(\b0001)), 30)
             [] OTHER -> {}
      S == CASE size = i8Bit  -> Shr(And(I, Bits(\b0100)), 2)
             [] size = i16Bit -> Shr(And(I, Bits(\b0010)), 1)
             [] size = i32Bit -> And(I, Bits(\b0001))
             [] OTHER -> {}
      Size == CASE size = i8Bit  -> And(I, Bits(\b11))
                [] size = i16Bit -> Shl(And(I, Bits(\b1)), 1)
                [] size = i64Bit -> Bits(1)
                [] OTHER -> {}
  IN ASIMDLoadStore(e1, Op \cup Q, IF Load THEN 1 ELSE 0, selem % 2, opcode, S, Size, rt, rn, rm)

\* The call c of the indexed load/store helper on emitter e.
LoadStoreSingle(e, c) ==
  ASIMDSTLD(e, c.size, c.Load, c.Count, c.Op, c.Opcode, c.rd, c.imm, c.rn, c.rm)

----------------------------------------------------------------------------
(* The emitter as a state machine.  A call is a record                     *)
(*   [cat, mn, Q, size, rd, rn, rm, imm, ub]:                              *)
(* the category and name of the mnemonic, the register type it is          *)
(* instantiated with (Q = 1: QRegister, Q = 0: DRegister), its element     *)
(* size, registers, immediate (shift amount, fractional bits or element    *)
(* index) and, for ushll/ushll2/uxtl/uxtl2 on i8Bit, the width the build   *)
(* yields for the out-of-range element size.                               *)

Call(cat, mn, Q, size, rd, rn, rm, imm, ub) ==
  [cat |-> cat, mn |-> mn, Q |-> Q, size |-> size, rd |-> rd, rn |-> rn,
   rm |-> rm, imm |-> imm, ub |-> ub]

\* A call of movi: Imm is the 64-bit immediate, imm the Shift.
CallImm(mn, Q, size, rd, Imm, Shift) ==
  [cat |-> "ModifiedImm", mn |-> mn, Q |-> Q, size |-> size, rd |-> rd, rn |-> 0,
   rm |-> 0, imm |-> Shift, ub |-> 0, Imm |-> Imm]

\* A call of a lane-indexed copy: imm is Index, Index2 the source lane of
\* ins (element).
CallCopy(mn, Q, size, rd, rn, Index, Index2) ==
  [cat |-> "ScalarCopy", mn |-> mn, Q |-> Q, size |-> size, rd |-> rd, rn |-> rn,
   rm |-> 0, imm |-> Index, ub |-> 0, Index2 |-> Index2]

\* A call of tbl or tbx: rns are the table registers.
CallTable(mn, Q, rd, rns, rm) ==
  [cat |-> "Table", mn |-> mn, Q |-> Q, size |-> i8Bit, rd |-> rd, rn |-> rns[1],
   rm |-> rm, imm |-> 0, ub |-> 0, rns |-> rns]

\* The call c on emitter e.
Emit(e, c) ==
  CASE c.cat = "ThreeSame"      -> ThreeSame(e, c)
    [] c.cat = "TwoRegMisc"     -> TwoRegMisc(e, c)
    [] c.cat = "ShiftByImm"     -> ShiftByImm(e, c)
    [] c.cat = "IndexedElement" -> IndexedElement(e, c)
    [] c.cat = "ModifiedImm"    -> ModifiedImm(e, c)
    [] c.cat = "BitwiseNot"     -> BitwiseNot(e, c)
    [] c.cat = "ScalarFixed"    -> ScalarFixed(e, c)
    [] c.cat = "LoadStoreSingle" -> LoadStoreSingle(e, c)
    [] c.cat = "Table"          -> Table(e, c)
    [] c.cat = "CryptoAES"      -> CryptoAESCall(e, c)
    [] c.cat = "ScalarCopy"     -> ScalarCopy(e, c)
    [] c.cat = "Extract"        -> Extract(e, c)
    [] c.cat = "ThreeDifferent" -> ThreeDifferent(e, c)
    [] c.cat = "CryptoThreeRegImm" -> CryptoThreeRegImm(e, c)
    [] c.cat = "FPThreeSame"    -> FPThreeSame(e, c)
    [] c.cat = "FPTwoRegMisc"   -> FPTwoRegMisc(e, c)
    [] c.cat = "FPAcrossLanes"  -> FPAcrossLanes(e, c)

\* The register types a mnemonic can be instantiated with.
QChoices(reg) == CASE reg = "D" -> {0} [] reg = "Q" -> {1} [] OTHER -> {0, 1}

\* The widths considered for the out-of-range element size.
UBWidths == {0, 8, 64}

\* ushll, ushll2, uxtl, uxtl2 read the width of the element size below
\* i8Bit when called with i8Bit.
UBChoices(form, size) ==
  IF form \in {"ushll", "uxtl", "uxtl2"} /\ size = i8Bit THEN UBWidths ELSE {0}

\* A second emitter with an output sink of its own.
NewEmitter == [sink |-> <<>>, status |-> "running", calls |-> <<>>]

Init ==
  /\ sink = <<>>
  /\ status = "running"
  /\ calls = <<>>
  /\ peer = NewEmitter

\* The program calls mnemonic c: a failed check ends the program, otherwise
\* the word is appended to the sink.
Issue(c) ==
  /\ status = "running"
  /\ LET e == Emit([sink |-> sink, ok |-> TRUE], c)
     IN /\ sink' = e.sink
        /\ status' = IF e.ok THEN "running" ELSE "aborted"
  /\ calls' = Append(calls, c)
  /\ UNCHANGED peer

\* A variant of IssueOnPeer in which the two emitters append to one sink.
IssueOnPeer_SharedSink(c) ==
  /\ peer.status = "running"
  /\ LET e == Emit([sink |-> peer.sink, ok |-> TRUE], c)
     IN /\ peer' = [sink |-> e.sink,
                    status |-> IF e.ok THEN "running" ELSE "aborted",
                    calls |-> Append(peer.calls, c)]
        /\ sink' = sink \o SubSeq(e.sink, Len(peer.sink) + 1, Len(e.sink))
  /\ UNCHANGED <<status, calls>>

\* The program calls mnemonic c on the second emitter.
IssueOnPeer(c) ==
  /\ peer.status = "running"
  /\ LET e == Emit([sink |-> peer.sink, ok |-> TRUE], c)
     IN peer' = [sink |-> e.sink,
                 status |-> IF e.ok THEN "running" ELSE "aborted",
                 calls |-> Append(peer.calls, c)]
  /\ UNCHANGED <<sink, status, calls>>

\* Input sets of the programs of several calls.
SomeSizes == {i8Bit, i64Bit}
SomeThreeSame == {"add", "uqsub", "mov"}
SomeTwoRegMisc == {"xtn", "uqxtn2"}
SomeShiftByImm == {"sshr", "sxtl", "sxtl2", "uxtl", "uxtl2"}
SomeIndexedElement == {"mul", "fmlal"}

CallThreeSame ==
  /\ Len(calls) < MaxCalls
  /\ \E mn \in SomeThreeSame, Q \in {0, 1}, size \in SomeSizes :
       Issue(Call("ThreeSame", mn, Q, size, 1, 2, 3, 0, 0))

CallTwoRegMisc ==
  /\ Len(calls) < MaxCalls
  /\ \E mn \in SomeTwoRegMisc, size \in SomeSizes :
       \E Q \in QChoices(TwoRegMiscTable[mn].reg) :
         Issue(Call("TwoRegMisc", mn, Q, size, 4, 5, 0, 0, 0))

CallShiftByImm ==
  /\ Len(calls) < MaxCalls
  /\ \E mn \in SomeShiftByImm, size \in {i16Bit, i64Bit} :
       \E Q \in QChoices(ShiftByImmTable[mn].reg) :
         \E Shift \in IF ShiftByImmTable[mn].form = "sshr" THEN {3} ELSE {0} :
           Issue(Call("ShiftByImm", mn, Q, size, 6, 7, 0, Shift, 0))

CallIndexedElement ==
  /\ Len(calls) < MaxCalls
  /\ \E mn \in SomeIndexedElement, Index \in {1, 40} :
       Issue(Call("IndexedElement", mn, 1, i16Bit, 8, 9, 10, Index, 0))

Next == CallThreeSame \/ CallTwoRegMisc \/ CallShiftByImm \/ CallIndexedElement

Spec == Init /\ [][Next]_vars

----------------------------------------------------------------------------
(* Programs of one call, over all mnemonics of a category and all their    *)
(* arguments within the bounds.                                            *)

\* Register numbers: the ends of v0..v31 and of the v0..v15 half.
SomeRegs == {0, 31}
SomeRms == {0, 15, 16, 31}
SomeRegPairs == {<<0, 31>>, <<31, 0>>}

OneThreeSame ==
  /\ calls = <<>>
  /\ \E mn \in ThreeSameMnemonics, Q \in {0, 1}, size \in SubRegSizes :
       \E rd \in SomeRegs, rn \in SomeRegs, rm \in SomeRegs :
         Issue(Call("ThreeSame", mn, Q, size, rd, rn, rm, 0, 0))

OneTwoRegMisc ==
  /\ calls = <<>>
  /\ \E mn \in TwoRegMiscMnemonics, size \in SubRegSizes :
       \E Q \in QChoices(TwoRegMiscTable[mn].reg), rd \in SomeRegs, rn \in SomeRegs :
         Issue(Call("TwoRegMisc", mn, Q, size, rd, rn, 0, 0, 0))

NextThreeSame == OneThreeSame \/ OneTwoRegMisc

SpecThreeSame == Init /\ [][NextThreeSame]_vars

OneShiftByImm ==
  /\ calls = <<>>
  /\ \E mn \in ShiftByImmMnemonics, size \in SubRegSizes :
       LET t == ShiftByImmTable[mn] IN
       \E Q \in QChoices(t.reg), r \in SomeRegPairs :
         \E Shift \in IF t.form \in {"sxtl", "sxtl2", "uxtl", "uxtl2"} THEN {0}
                      ELSE 0..MaxShift :
           \E ub \in UBChoices(t.form, size) :
             Issue(Call("ShiftByImm", mn, Q, size, r[1], r[2], 0, Shift, ub))

NextShiftByImm == OneShiftByImm

SpecShiftByImm == Init /\ [][NextShiftByImm]_vars

OneIndexedElement ==
  /\ calls = <<>>
  /\ \E mn \in IndexedElementMnemonics :
       LET t == IndexedElementTable[mn] IN
       \E size \in IF t.form \in {"mul", "smlal", "fmla"} THEN SubRegSizes ELSE {t.size} :
         \E Q \in QChoices(t.reg), r \in SomeRegPairs, rm \in SomeRms :
           \E Index \in 0..MaxIndex :
             Issue(Call("IndexedElement", mn, Q, size, r[1], r[2], rm, Index, 0))

NextIndexedElement == OneIndexedElement

SpecIndexedElement == Init /\ [][NextIndexedElement]_vars

\* Byte values of the immediates: all-zeros, all-ones, and bytes that are
\* neither.
SomeBytes == {0, 255, 128}
LowBytes == {0, 1, 16, 32, 128, 165, 255}

\* The immediates of the 64-bit movi: any of SomeBytes in each byte; of the
\* narrower ones: any of LowBytes in byte 0, byte 1 zero or not.
WideImms == [0..7 -> SomeBytes]
NarrowImms ==
  {[i \in 0..7 |-> IF i = 0 THEN b ELSE IF i = 1 THEN h ELSE 0] : b \in LowBytes, h \in {0, 1}}

OneModifiedImm ==
  /\ calls = <<>>
  /\ \E size \in SubRegSizes, Q \in {0, 1}, rd \in SomeRegs, Shift \in {0, 8, 16, 24, 32} :
       \E Imm \in IF size = i64Bit THEN WideImms ELSE NarrowImms :
         Issue(CallImm("movi", Q, size, rd, Imm, Shift))

NextModifiedImm == OneModifiedImm

SpecModifiedImm == Init /\ [][NextModifiedImm]_vars

OneFPThreeSame ==
  /\ calls = <<>>
  /\ \E mn \in FPThreeSameMnemonics, Q \in {0, 1}, size \in SubRegSizes :
       \E rd \in SomeRegs, rn \in SomeRegs, rm \in SomeRegs :
         Issue(Call("FPThreeSame", mn, Q, size, rd, rn, rm, 0, 0))

OneFPTwoRegMisc ==
  /\ calls = <<>>
  /\ \E mn \in FPTwoRegMiscMnemonics, Q \in {0, 1}, size \in SubRegSizes :
       \E rd \in SomeRegs, rn \in SomeRegs :
         Issue(Call("FPTwoRegMisc", mn, Q, size, rd, rn, 0, 0, 0))

OneFPAcrossLanes ==
  /\ calls = <<>>
  /\ \E mn \in FPAcrossLanesMnemonics, Q \in {0, 1}, size \in SubRegSizes :
       \E rd \in SomeRegs, rn \in SomeRegs :
         Issue(Call("FPAcrossLanes", mn, Q, size, rd, rn, 0, 0, 0))

NextFloat == OneFPThreeSame \/ OneFPTwoRegMisc \/ OneFPAcrossLanes

SpecFloat == Init /\ [][NextFloat]_vars

\* One call of an alias or of the mnemonic it is defined by.
OrrAndMov == {"orr", "mov"}
ExtendAndShiftLeftLong ==
  {"sxtl", "sxtl2", "uxtl", "uxtl2", "sshll", "sshll2", "ushll", "ushll2"}

OneOrrOrMov ==
  /\ calls = <<>>
  /\ \E mn \in OrrAndMov, Q \in {0, 1} :
       \E rd \in SomeRegs, rn \in SomeRms, rm \in SomeRegs :
         Issue(Call("ThreeSame", mn, Q, i8Bit, rd, rn, rm, 0, 0))

OneExtendOrShiftLeftLong ==
  /\ calls = <<>>
  /\ \E mn \in ExtendAndShiftLeftLong, size \in SubRegSizes :
       LET t == ShiftByImmTable[mn] IN
       \E Q \in QChoices(t.reg), r \in SomeRegPairs :
         \E Shift \in IF t.form \in {"sxtl", "sxtl2", "uxtl", "uxtl2"} THEN {0}
                      ELSE {0, 1} :
           \E ub \in UBChoices(t.form, size) :
             Issue(Call("ShiftByImm", mn, Q, size, r[1], r[2], 0, Shift, ub))

OneBitwiseNot ==
  /\ calls = <<>>
  /\ \E mn \in BitwiseNotMnemonics, Q \in {0, 1}, size \in SubRegSizes :
       \E rd \in SomeRegs, rn \in SomeRegs :
         Issue(Call("BitwiseNot", mn, Q, size, rd, rn, 0, 0, 0))

NextAlias == OneOrrOrMov \/ OneExtendOrShiftLeftLong \/ OneBitwiseNot

SpecAlias == Init /\ [][NextAlias]_vars

\* index arguments of sm3tt1a .. sm3tt2b: the legal 0..3 and some beyond.
SomeCryptoIndexes == 0 .. 5

OneCryptoThreeRegImm ==
  /\ calls = <<>>
  /\ \E mn \in CryptoThreeRegImmMnemonics, index \in SomeCryptoIndexes :
       \E rd \in SomeRegs, rn \in SomeRegs, rm \in SomeRegs :
         Issue(Call("CryptoThreeRegImm", mn, 1, i32Bit, rd, rn, rm, index, 0))

NextEncoderChecks == OneCryptoThreeRegImm \/ OneShiftByImm

SpecEncoderChecks == Init /\ [][NextEncoderChecks]_vars

OneThreeDifferent ==
  /\ calls = <<>>
  /\ \E mn \in {"pmull", "pmull2"}, size \in SubRegSizes :
       \E rd \in SomeRegs, rn \in SomeRegs, rm \in SomeRegs :
         Issue(Call("ThreeDifferent", mn, IF mn = "pmull2" THEN 1 ELSE 0,
                    size, rd, rn, rm, 0, 0))

NextElementSize == OneThreeSame \/ OneTwoRegMisc \/ OneThreeDifferent

SpecElementSize == Init /\ [][NextElementSize]_vars

\* Lane numbers: every lane of a 128-bit register of bytes and some beyond.
OneScalarCopy ==
  /\ calls = <<>>
  /\ \E mn \in ScalarCopyMnemonics, Q \in {0, 1} :
       \E size \in ScalarCopySizes(mn, Q), r \in SomeRegPairs, Index \in 0 .. MaxLane :
         \E Index2 \in IF mn = "ins_element" THEN {0, 1, 2, 16} ELSE {0} :
           Issue(CallCopy(mn, Q, size, r[1], r[2], Index, Index2))

OneExtract ==
  /\ calls = <<>>
  /\ \E Q \in {0, 1}, Index \in 0 .. MaxLane :
       \E rd \in SomeRegs, rn \in SomeRegs, rm \in SomeRegs :
         Issue(Call("Extract", "ext", Q, i8Bit, rd, rn, rm, Index, 0))

NextCopy == OneScalarCopy \/ OneExtract

SpecCopy == Init /\ [][NextCopy]_vars

\* One AES call on any pair of registers.
OneCryptoAES ==
  /\ calls = <<>>
  /\ \E mn \in DOMAIN CryptoAESTable, rd \in 0 .. 31, rn \in 0 .. 31 :
       Issue(Call("CryptoAES", mn, 1, i8Bit, rd, rn, 0, 0, 0))

NextCryptoAES == OneCryptoAES

SpecCryptoAES == Init /\ [][NextCryptoAES]_vars

\* Table registers: runs of neighbours, gaps, repeats and the step from v31
\* to v0.
SomeTableRegs == {0, 1, 2, 3, 31}
SomeTables == UNION {[1 .. n -> SomeTableRegs] : n \in 1 .. 4}

OneTable ==
  /\ calls = <<>>
  /\ \E mn \in {"tbl", "tbx"}, Q \in {0, 1}, rns \in SomeTables :
       \E r \in SomeRegPairs :
         Issue(CallTable(mn, Q, r[1], rns, r[2]))

NextTable == OneTable

SpecTable == Init /\ [][NextTable]_vars

\* Two emitters, each with its own sink, called in any interleaving.
SomeCalls ==
  { Call("ThreeSame", "add", 1, i64Bit, 1, 2, 3, 0, 0),
    Call("ThreeSame", "add", 0, i64Bit, 1, 2, 3, 0, 0),
    Call("ThreeSame", "mov", 0, i8Bit, 4, 5, 0, 0, 0),
    Call("ThreeDifferent", "pmull", 0, i16Bit, 6, 7, 8, 0, 0),
    Call("ThreeDifferent", "pmull2", 1, i32Bit, 6, 7, 8, 0, 0),
    Call("ShiftByImm", "sshr", 1, i32Bit, 9, 10, 0, 10, 0) }

CallHere ==
  /\ Len(calls) < MaxCalls
  /\ \E c \in SomeCalls : Issue(c)

CallOnPeer ==
  /\ Len(peer.calls) < MaxCalls
  /\ \E c \in SomeCalls : IssueOnPeer(c)

NextTwoEmitters == CallHere \/ CallOnPeer

SpecTwoEmitters == Init /\ [][NextTwoEmitters]_vars

\* One scalar fixed-point conversion; imm is FractionalBits, size the
\* ScalarRegSize and GPRSize the size of the general register.
OneScalarFixed ==
  /\ calls = <<>>
  /\ \E mn \in DOMAIN ScalarFixedTable, GPRSize \in {"i32Bit", "i64Bit"} :
       \E ScalarSize \in {i16Bit, i32Bit, i64Bit}, r \in SomeRegPairs :
         \E FractionalBits \in 0 .. MaxFractionalBits :
           Issue(Call("ScalarFixed", mn, 0, ScalarSize, r[1], r[2], 0, FractionalBits, 0)
                   @@ [GPRSize |-> GPRSize])

NextScalarFixed == OneScalarFixed

SpecScalarFixed == Init /\ [][NextScalarFixed]_vars

\* One call of an integer mnemonic that comes in paired forms (signed and
\* unsigned, 64-bit and 128-bit register, lower and upper half).
NextPairedForms == OneThreeSame \/ OneTwoRegMisc \/ OneShiftByImm

SpecPairedForms == Init /\ [][NextPairedForms]_vars

\* The Op words handed to the helper: load/store single structure without
\* and with post-index.
SingleStructureOps == {Bits(\h0D000000), Bits(\h0D800000)}

\* The Opcode of the lane forms of an element size: scale in bits 2:1.
SingleStructureOpcode(size) ==
  CASE size = i8Bit -> \b000 [] size = i16Bit -> \b010 [] OTHER -> \b100

\* One call of the indexed load/store helper; rd is rt and imm is Index.
OneLoadStoreSingle ==
  /\ calls = <<>>
  /\ \E size \in SubRegSizes, Load \in BOOLEAN, Count \in 1 .. 4 :
       \E Op \in SingleStructureOps, rt \in SomeRegs, rn \in SomeRegs :
         \E rm \in SomeRegs, Index \in 0 .. MaxLane :
           Issue(Call("LoadStoreSingle", "ASIMDSTLD", 0, size, rt, rn, rm, Index, 0)
                   @@ [Load |-> Load, Count |-> Count, Op |-> Op,
                       Opcode |-> SingleStructureOpcode(size)])

NextLoadStore == OneLoadStoreSingle

SpecLoadStore == Init /\ [][NextLoadStore]_vars

----------------------------------------------------------------------------
(* Properties.                                                             *)

\* The call made last, whether it passed its checks, and the word it
\* appended.
LastCall == calls[Len(calls)]
Accepted == calls # <<>> /\ status = "running" /\ Len(sink) = Len(calls)
Rejected == calls # <<>> /\ status = "aborted" /\ Len(sink) = Len(calls) - 1
LastWord == sink[Len(sink)]

(* The A64 rules for the three-same integer and narrowing instructions     *)
(* (Arm ARM, C7.2): the element sizes each instruction has an encoding     *)
(* for, and the encoding.                                                  *)

\* size = 0b11 is reserved.
IsaNo64 ==
  {"shadd", "uhadd", "srhadd", "urhadd", "shsub", "uhsub", "smax", "umax",
   "smin", "umin", "sabd", "uabd", "saba", "uaba", "mla", "mls", "mul",
   "smaxp", "umaxp", "sminp", "uminp"}

\* size:Q = 0b110 is reserved.
IsaNo64OnD ==
  {"sqadd", "uqadd", "sqsub", "uqsub", "cmgt", "cmge", "cmhi", "cmhs",
   "cmtst", "cmeq", "sshl", "ushl", "sqshl", "uqshl", "srshl", "urshl",
   "sqrshl", "uqrshl", "add", "sub", "addp"}

\* size = 0b00 and size = 0b11 are reserved.
IsaNo8No64 == {"sqdmulh", "sqrdmulh"}

IsaPermits(c) ==
  CASE c.cat = "ThreeSame" /\ c.mn \in IsaNo64 -> c.size \in {i8Bit, i16Bit, i32Bit}
    [] c.cat = "ThreeSame" /\ c.mn \in IsaNo64OnD ->
         c.size \in {i8Bit, i16Bit, i32Bit} \/ (c.size = i64Bit /\ c.Q = 1)
    [] c.cat = "ThreeSame" /\ c.mn \in IsaNo8No64 -> c.size \in {i16Bit, i32Bit}
    [] c.cat = "ThreeSame" /\ c.mn \in {"orr", "mov"} -> TRUE
    [] c.cat = "TwoRegMisc" -> c.size \in {i8Bit, i16Bit, i32Bit}

\* 0 Q U 01110 size 1 Rm opcode 1 Rn Rd  and  0 Q U 01110 size 10000 opcode 10 Rn Rd
IsaWord(c) ==
  IF c.cat = "ThreeSame"
  THEN LET t == ThreeSameTable[c.mn]
           size == IF c.mn \in {"orr", "mov"} THEN 2 ELSE c.size
           Rm == IF c.mn = "mov" THEN c.rn ELSE c.rm
       IN \h0E200400 + c.Q * Pow2(30) + t.U * Pow2(29) + size * Pow2(22)
            + Rm * Pow2(16) + t.opcode * Pow2(11) + c.rn * 32 + c.rd
  ELSE LET t == TwoRegMiscTable[c.mn]
       IN \h0E200800 + c.Q * Pow2(30) + t.U * Pow2(29) + c.size * Pow2(22)
            + t.opcode * Pow2(12) + c.rn * 32 + c.rd

\* C1 (as stated): every combination of mnemonic, element size and register
\* width the ISA permits is accepted, and the one word appended is the ISA's
\* encoding of the instruction.
C1_PermittedIsEncoded ==
  (calls # <<>> /\ IsaPermits(LastCall)) =>
     (Accepted /\ LastWord = Bits(IsaWord(LastCall)))

\* C2 (as stated): every combination of mnemonic, element size and register
\* width the ISA disallows is rejected, and no word is appended.
C2_DisallowedIsRejected ==
  (calls # <<>> /\ ~IsaPermits(LastCall)) => Rejected

\* C3: after n calls that all passed their checks the sink holds exactly n
\* words: every accepted call, the aliases mov, sxtl, sxtl2, uxtl and uxtl2
\* included, appends exactly one word.
C3_OneWordPerCall == status = "running" => Len(sink) = Len(calls)

\* Two accepted calls of alias mnemonics, mov among them.
C3_Witness ==
  /\ status = "running"
  /\ Len(calls) >= 2
  /\ calls[1].mn = "mov"
  /\ calls[2].mn \in {"sxtl", "sxtl2", "uxtl", "uxtl2"}

\* The word a call appends when made on an emitter of its own.
WordOf(c) == Emit([sink |-> <<>>, ok |-> TRUE], c).sink[1]

\* C4: the i-th word of the sink is the word of the i-th call, at every
\* point of the program: words are appended in call order and a later call
\* leaves the earlier words as they are.
C4_WordsInCallOrder ==
  /\ Len(sink) <= Len(calls)
  /\ \A i \in 1..Len(sink) : sink[i] = WordOf(calls[i])

\* A two-register-miscellaneous call accepted after a call that appended a
\* different word.
C4_Witness ==
  /\ Len(sink) >= 2
  /\ calls[2].cat = "TwoRegMisc"
  /\ sink[1] # sink[2]

\* The width in bits of the element a by-element call indexes; 0 when the
\* mnemonic has no form for the element size asked for.  smlal and the
\* other widening mnemonics index elements of half the destination size,
\* the dot products groups of 32 bits, fmlal and bfmlalb half-precision
\* elements.
IndexedBits(c) ==
  LET form == IndexedElementTable[c.mn].form IN
  CASE form = "mul"   -> IF c.size \in {i16Bit, i32Bit} THEN 8 * Pow2(c.size) ELSE 0
    [] form = "smlal" -> IF c.size \in {i32Bit, i64Bit} THEN 4 * Pow2(c.size) ELSE 0
    [] form = "fmla"  -> IF c.size \in {i16Bit, i32Bit, i64Bit} THEN 8 * Pow2(c.size) ELSE 0
    [] form = "sdot"  -> 32
    [] form \in {"fmlal", "bfmlalb"} -> 16

\* C5 (as stated): a by-element call whose Index is no lane of the indexed
\* element size (Index >= 128 / element size in bits) is rejected and appends
\* no word.
C5_IndexOutOfRangeRejected ==
  (/\ calls # <<>>
   /\ LastCall.cat = "IndexedElement"
   /\ IndexedBits(LastCall) # 0
   /\ LastCall.imm * IndexedBits(LastCall) >= 128) => Rejected

\* C6 (as stated): a by-element call on 16-bit elements, whose M bit (bit 20)
\* carries the low bit of the index, is accepted only with rm < 16, and bit
\* 20 of its word is the low bit of the index.
C6_MOverlapNeedsLowRm ==
  (/\ Accepted
   /\ LastCall.cat = "IndexedElement"
   /\ IndexedBits(LastCall) = 16) =>
     (/\ LastCall.rm < 16
      /\ (20 \in LastWord) <=> (LastCall.imm % 2 = 1))

\* The lane index the H (bit 11), L (bit 21) and M (bit 20) bits of word w
\* stand for, for elements of the given width.
DecodedIndex(w, bits) ==
  LET H == Field(w, 11, 11)
      L == Field(w, 21, 21)
      M == Field(w, 20, 20)
  IN CASE bits = 16 -> 4 * H + 2 * L + M
       [] bits = 32 -> 2 * H + L
       [] bits = 64 -> H

\* C7 (as stated): the lane index of an accepted by-element call, when it
\* is a lane of the indexed element size, is recovered from the H, L and M
\* bits of the appended word.
C7_IndexRoundTrip ==
  (/\ Accepted
   /\ LastCall.cat = "IndexedElement"
   /\ IndexedBits(LastCall) # 0
   /\ LastCall.imm * IndexedBits(LastCall) < 128) =>
     DecodedIndex(LastWord, IndexedBits(LastCall)) = LastCall.imm

\* The shift mnemonics proper (the fixed-point conversions take a count of
\* fractional bits instead), and those whose field grows as the shift
\* shrinks: the right shifts and the narrowing shifts.
IsShift(c) == c.cat = "ShiftByImm" /\ ShiftByImmTable[c.mn].form # "scvtf"
RightShiftLike(c) == ShiftByImmTable[c.mn].form \in {"sshr", "shrn", "uqshrn"}

\* size_in_bits: the width of the elements the call shifts.  The widening
\* shifts name their destination size and shift elements of half that.
ShiftBits(c) ==
  IF ShiftByImmTable[c.mn].form \in {"sshll", "sxtl", "sxtl2", "ushll", "uxtl", "uxtl2"}
  THEN SubRegSizeInBits(Narrower(c.size), c.ub)
  ELSE SubRegSizeInBits(c.size, c.ub)

\* The immh (bits 22:19) and immb (bits 18:16) fields of word w.
ImmhOf(w) == Field(w, 22, 19)
ImmbOf(w) == Field(w, 18, 16)

\* C8 (as stated): a shift call whose shift amount is not below the width of
\* the element is rejected and appends no word.
C8_ShiftOutOfRangeRejected ==
  (/\ calls # <<>>
   /\ IsShift(LastCall)
   /\ LastCall.imm >= ShiftBits(LastCall)) => Rejected

\* C9 (as stated): the shift amount of an accepted shift call, when below
\* the width of the element, is recovered from immh:immb of the appended
\* word: 2 * size_in_bits - immh:immb for the right and narrowing shifts,
\* immh:immb - size_in_bits for the left shifts.
C9_ShiftRoundTrip ==
  (/\ Accepted
   /\ IsShift(LastCall)
   /\ LastCall.imm < ShiftBits(LastCall)) =>
     LET field == 8 * ImmhOf(LastWord) + ImmbOf(LastWord)
     IN IF RightShiftLike(LastCall)
        THEN 2 * ShiftBits(LastCall) - field = LastCall.imm
        ELSE field - ShiftBits(LastCall) = LastCall.imm

\* C10 (as stated): the word of an accepted shift call carries field >> 3 in
\* bits 22:19 and field & 7 in bits 18:16, where field is 2 * size_in_bits -
\* shift for the right and narrowing shifts and size_in_bits + shift for the
\* left shifts; sshr and ushr on 32-bit elements with shift 10 are accepted
\* and carry immh = 6 and immb = 6.
C10_FieldInImmhImmb ==
  /\ (Accepted /\ IsShift(LastCall)) =>
       LET field == IF RightShiftLike(LastCall)
                    THEN 2 * ShiftBits(LastCall) - LastCall.imm
                    ELSE ShiftBits(LastCall) + LastCall.imm
       IN /\ ImmhOf(LastWord) = field \div 8
          /\ ImmbOf(LastWord) = field % 8
  /\ (/\ calls # <<>>
      /\ LastCall.mn \in {"sshr", "ushr"}
      /\ LastCall.size = i32Bit
      /\ LastCall.imm = 10) =>
        (Accepted /\ ImmhOf(LastWord) = 6 /\ ImmbOf(LastWord) = 6)

\* C11 (as stated): no word of a shift-by-immediate call is appended with a
\* zero immh field (bits 22:19).
C11_ImmhFieldNeverZero ==
  (Accepted /\ LastCall.cat = "ShiftByImm") => ImmhOf(LastWord) # 0

\* The shift mnemonics that take a destination size and shift elements of
\* half that size (widening) or of twice that size (narrowing).
WideningShift(c) ==
  ShiftByImmTable[c.mn].form \in {"sshll", "sxtl", "sxtl2", "ushll", "uxtl", "uxtl2"}
NarrowingShift(c) == ShiftByImmTable[c.mn].form \in {"shrn", "uqshrn"}

\* C12 (as stated): a widening mnemonic given an 8-bit destination and a
\* narrowing mnemonic given a 64-bit destination are rejected and append no
\* word.
C12_BoundarySizeRejected ==
  (/\ calls # <<>>
   /\ LastCall.cat = "ShiftByImm"
   /\ \/ WideningShift(LastCall) /\ LastCall.size = i8Bit
      \/ NarrowingShift(LastCall) /\ LastCall.size = i64Bit) => Rejected

\* C13 (as stated), on the by-element words: the variable fields stay
\* inside their bit ranges, so that the fixed bits of the template (bit 31,
\* bits 28:24, bit 10) and the U, opcode and register fields read back as
\* they were given; bit 20 alone is shared, by M and the top bit of Rm.
C13_FieldsStayInRange ==
  (Accepted /\ LastCall.cat = "IndexedElement") =>
     LET t == IndexedElementTable[LastCall.mn]
         w == LastWord
     IN /\ Field(w, 31, 31) = 0
        /\ Field(w, 30, 30) = LastCall.Q
        /\ Field(w, 29, 29) = t.U
        /\ Field(w, 28, 24) = \b01111
        /\ Field(w, 19, 16) = LastCall.rm % 16
        /\ Field(w, 15, 12) = t.opcode
        /\ Field(w, 10, 10) = 0
        /\ Field(w, 9, 5) = LastCall.rn
        /\ Field(w, 4, 0) = LastCall.rd

\* The 8-bit immediate a:b:c:d:e:f:g:h of a modified-immediate word (bits
\* 18:16 and 9:5), and byte i of its expansion to 64 bits.
Imm8Of(w) == 32 * Field(w, 18, 16) + Field(w, 9, 5)
ExpandedByte(w, i) == IF (Imm8Of(w) \div Pow2(i)) % 2 = 1 THEN 255 ELSE 0

\* C14: movi on 64-bit elements accepts exactly the immediates whose bytes
\* are all 0x00 or 0xFF, with Shift 0; expanding each bit of the 8-bit
\* immediate of the appended word to a byte gives the immediate back; any
\* other call is rejected and appends no word.
C14_Movi64RoundTrip ==
  (/\ calls # <<>>
   /\ LastCall.cat = "ModifiedImm"
   /\ LastCall.size = i64Bit) =>
     LET Imm == LastCall.Imm
         Composed == (\A i \in 0..7 : Imm[i] \in {0, 255}) /\ LastCall.imm = 0
     IN /\ Accepted <=> Composed
        /\ Accepted => \A i \in 0..7 : ExpandedByte(LastWord, i) = Imm[i]
        /\ ~Composed => Rejected

\* An accepted 64-bit movi whose immediate has 0xFF and 0x00 bytes in no
\* symmetric arrangement.
C14_Witness ==
  /\ Accepted
  /\ LastCall.cat = "ModifiedImm"
  /\ LastCall.size = i64Bit
  /\ LastCall.Imm[0] = 255 /\ LastCall.Imm[1] = 0
  /\ LastCall.Imm[6] = 255 /\ LastCall.Imm[7] = 0

----------------------------------------------------------------------------
(* Floating-point size field *)

IsFloatCall(c) == c.cat \in {"FPThreeSame", "FPTwoRegMisc", "FPAcrossLanes"}

\* An accepted floating-point call with 32- or 64-bit elements.
FloatOnIntegerTemplate ==
  /\ Accepted
  /\ IsFloatCall(LastCall)
  /\ LastCall.size \in {i32Bit, i64Bit}

\* The word of the same mnemonic on half-precision elements.
HalfWord == WordOf([LastCall EXCEPT !.size = i16Bit])

----------------------------------------------------------------------------
(* Aliases *)

\* The mnemonic each alias is defined by.
AliasOf ==
  [ mov   |-> "orr",
    sxtl  |-> "sshll",
    sxtl2 |-> "sshll2",
    uxtl  |-> "ushll",
    uxtl2 |-> "ushll2",
    mvn   |-> "not_" ]

IsAlias(c) ==
  /\ c.cat \in {"ThreeSame", "ShiftByImm", "BitwiseNot"}
  /\ c.mn \in DOMAIN AliasOf

\* The call an alias call stands for: mov(rd, rn) is orr(rd, rn, rn), the
\* extends are the shifts left long by 0, mvn is not_.
DefinedBy(c) ==
  [c EXCEPT !.mn = AliasOf[c.mn],
            !.rm = IF c.mn = "mov" THEN c.rn ELSE c.rm,
            !.Q = IF c.cat = "ShiftByImm"
                  THEN (IF ShiftByImmTable[AliasOf[c.mn]].reg = "Q" THEN 1 ELSE 0)
                  ELSE c.Q,
            !.imm = 0]

\* C16: a call of an alias leaves the emitter as the call of the mnemonic it
\* is defined by does, with the operand duplicated (mov) or the shift 0
\* (sxtl, sxtl2, uxtl, uxtl2): the same word is appended, or both are
\* rejected.
C16_AliasWordIdentical ==
  (calls # <<>> /\ IsAlias(LastCall)) =>
    LET d == Emit([sink |-> <<>>, ok |-> TRUE], DefinedBy(LastCall))
    IN /\ (status = "running") = d.ok
       /\ sink = d.sink

C16_Witness ==
  /\ Accepted
  /\ LastCall.mn = "sxtl2"
  /\ LastCall.size = i32Bit
  /\ LastCall.rn = 31
  /\ LastWord = WordOf(Call("ShiftByImm", "sshll2", 1, i32Bit, 0, 31, 0, 0, 0))
  /\ 30 \in LastWord

----------------------------------------------------------------------------
(* Checks inside the category encoders *)

\* The checks a shift-by-immediate mnemonic makes itself, before it hands
\* immh and immb to ASIMDShiftByImm.
MnemonicChecksPass(c) ==
  LET form == ShiftByImmTable[c.mn].form IN
  CASE form \in {"sshr", "shl"} -> c.Q = 1 \/ c.size # i64Bit
    [] form = "shrn" -> c.size # i64Bit
    [] form \in {"uqshrn", "ushll", "uxtl", "uxtl2"} -> TRUE
    [] form \in {"sshll", "sxtl", "sxtl2"} ->
         c.size # i8Bit /\ c.imm < ShiftBits(c)
    [] form = "scvtf" ->
         /\ c.size # i8Bit
         /\ c.Q = 1 \/ c.size # i64Bit
         /\ c.imm < ShiftBits(c)

\* The immh the mnemonic hands to ASIMDShiftByImm, as a 32-bit word.
HandedImmh(c) ==
  LET form == ShiftByImmTable[c.mn].form
      InvertedShift == IF form \in {"sshr", "shrn", "uqshrn", "scvtf"}
                       THEN Sub32(ShiftBits(c) * 2, c.imm)
                       ELSE Bits(ShiftBits(c) + c.imm)
  IN Shr(InvertedShift, 3)

\* C17 as stated: a call whose checks in the mnemonic passed is accepted;
\* sm3tt1a .. sm3tt2b have no checks of their own.
C17_EncoderNeverRaises ==
  /\ (calls # <<>> /\ LastCall.cat = "CryptoThreeRegImm") => Accepted
  /\ (/\ calls # <<>>
      /\ LastCall.cat = "ShiftByImm"
      /\ MnemonicChecksPass(LastCall)) => Accepted

\* C17, amended: Crypto3RegImm rejects exactly the indexes above 3, which
\* sm3tt1a .. sm3tt2b hand on unchecked, and ASIMDShiftByImm rejects a call
\* that passed the mnemonic's checks exactly when the immh handed to it is 0.
C17_EncodersRaiseOnTheirOwnChecks ==
  /\ (calls # <<>> /\ LastCall.cat = "CryptoThreeRegImm") =>
       /\ Rejected <=> LastCall.imm > 3
       /\ Accepted <=> LastCall.imm <= 3
       /\ Accepted => Field(LastWord, 13, 12) = LastCall.imm
  /\ (/\ calls # <<>>
      /\ LastCall.cat = "ShiftByImm"
      /\ MnemonicChecksPass(LastCall)) =>
       /\ Rejected <=> HandedImmh(LastCall) = {}
       /\ Accepted <=> HandedImmh(LastCall) # {}
  /\ (/\ calls # <<>>
      /\ LastCall.cat = "ShiftByImm"
      /\ ~MnemonicChecksPass(LastCall)) => Rejected

C17_Witness ==
  /\ Rejected
  /\ LastCall.cat = "CryptoThreeRegImm"
  /\ LastCall.mn = "sm3tt1a"
  /\ LastCall.imm = 4
  /\ sink = <<>>

----------------------------------------------------------------------------
(* The 128-bit element size *)

\* C18 (as stated): pmull and pmull2 accept i128Bit, and a call of any other
\* mnemonic with i128Bit is rejected and appends no word.
C18_OnlyPmullAccepts128 ==
  /\ (/\ calls # <<>>
      /\ LastCall.size = i128Bit
      /\ LastCall.cat # "ThreeDifferent") => Rejected
  /\ (/\ calls # <<>>
      /\ LastCall.size = i128Bit
      /\ LastCall.cat = "ThreeDifferent") =>
        (Accepted /\ Field(LastWord, 23, 22) = \b11)

----------------------------------------------------------------------------
(* Lane-indexed copies and ext *)

Imm5Of(w) == Field(w, 20, 16)

\* The position of the lowest set bit of a 5-bit value (5 if there is none).
LowestSetBit(v) ==
  IF v % 32 = 0 THEN 5 ELSE CHOOSE k \in 0 .. 4 : v % Pow2(k + 1) = Pow2(k)

\* C19: a call of dup (element), ins, umov or smov with Index at or above
\* 128 / element width is rejected, and an accepted one hands on
\* imm5 = (Index << (log2(bytes) + 1)) | bytes, which is below 32, has the
\* size as the position of its lowest set bit and Index in the bits above;
\* dup on 32-bit elements with Index 2 hands on (2 << 3) | 4.
C19_Imm5OfLaneIndex ==
  /\ (calls # <<>> /\ LastCall.cat = "ScalarCopy") =>
       LET bytes == Pow2(LastCall.size)
           value == LastCall.imm * Pow2(LastCall.size + 1) + bytes
       IN /\ LastCall.imm >= 128 \div (8 * bytes) => Rejected
          /\ Accepted =>
               /\ value < 32
               /\ Imm5Of(LastWord) = value
               /\ 21 \notin LastWord
               /\ LowestSetBit(Imm5Of(LastWord)) = LastCall.size
               /\ Imm5Of(LastWord) \div Pow2(LastCall.size + 1) = LastCall.imm
  /\ (/\ calls # <<>>
      /\ LastCall.cat = "ScalarCopy"
      /\ LastCall.mn = "dup"
      /\ LastCall.size = i32Bit
      /\ LastCall.imm = 2) =>
        (Accepted /\ Imm5Of(LastWord) = 20)

C19_Witness ==
  /\ Accepted
  /\ LastCall.cat = "ScalarCopy"
  /\ LastCall.mn = "dup"
  /\ LastCall.size = i32Bit
  /\ LastCall.imm = 2
  /\ Imm5Of(LastWord) = \b10100

\* C20: ext with Index at or above 16 on Q registers, or at or above 8 on D
\* registers, is rejected and appends no word; an accepted ext carries Index
\* in bits 14:11, and bit 30 is set exactly in the Q form.
C20_ExtIndexInImm4 ==
  (calls # <<>> /\ LastCall.cat = "Extract") =>
    /\ LastCall.imm >= (IF LastCall.Q = 1 THEN 16 ELSE 8) => Rejected /\ sink = <<>>
    /\ LastCall.imm < (IF LastCall.Q = 1 THEN 16 ELSE 8) => Accepted
    /\ Accepted =>
         /\ Field(LastWord, 14, 11) = LastCall.imm
         /\ (30 \in LastWord) <=> (LastCall.Q = 1)
         /\ 15 \notin LastWord

C20_Witness ==
  /\ Accepted
  /\ LastCall.cat = "Extract"
  /\ LastCall.Q = 1
  /\ LastCall.imm = 15
  /\ Field(LastWord, 14, 11) = 15
  /\ 30 \in LastWord

----------------------------------------------------------------------------
(* AES *)

\* The opcode the A64 encoding gives each AES instruction.
AESOpcode(mn) ==
  CASE mn = "aese"   -> 4
    [] mn = "aesd"   -> 5
    [] mn = "aesmc"  -> 6
    [] mn = "aesimc" -> 7

\* C21: every call of aese, aesd, aesmc or aesimc is accepted and appends
\* 0x4E280800 | (opcode << 12) | (rn << 5) | rd: bits 16:12, 9:5 and 4:0
\* carry opcode, Rn and Rd, every other bit is the template's; aese on v0,
\* v1 appends 0x4E284820.
C21_AESWord ==
  (calls # <<>> /\ LastCall.cat = "CryptoAES") =>
    /\ Accepted
    /\ Field(LastWord, 16, 12) = AESOpcode(LastCall.mn)
    /\ Field(LastWord, 9, 5) = LastCall.rn
    /\ Field(LastWord, 4, 0) = LastCall.rd
    /\ LastWord \ ((12 .. 16) \cup (0 .. 9)) = Bits(\h4E280800) \ ((12 .. 16) \cup (0 .. 9))
    /\ LastWord = Bits(\h4E280800 + 4096 * AESOpcode(LastCall.mn)
                       + 32 * LastCall.rn + LastCall.rd)
    /\ (LastCall.mn = "aese" /\ LastCall.rd = 0 /\ LastCall.rn = 1) =>
         LastWord = Bits(\h4E284820)

C21_Witness ==
  /\ Accepted
  /\ LastCall.cat = "CryptoAES"
  /\ LastCall.mn = "aese"
  /\ LastCall.rd = 0
  /\ LastCall.rn = 1
  /\ LastWord = Bits(\h4E284820)

----------------------------------------------------------------------------
(* Table lookup *)

\* Some table register is not numbered one above the one before it, v0
\* counting as one above v31.
HasGap(rns) == \E i \in 2 .. Len(rns) : rns[i] # (rns[i - 1] + 1) % 32

\* Each table register is numbered one above the one before it.
Ascending(rns) == \A i \in 2 .. Len(rns) : rns[i] = rns[i - 1] + 1

\* C22: tbl and tbx with 2, 3 or 4 table registers are rejected, appending
\* no word, when the table registers are not consecutively numbered, and
\* accepted when they are; with one table register every call is accepted.
C22_TableRegistersConsecutive ==
  (calls # <<>> /\ LastCall.cat = "Table") =>
    /\ (Len(LastCall.rns) > 1 /\ HasGap(LastCall.rns)) => (Rejected /\ sink = <<>>)
    /\ (Len(LastCall.rns) > 1 /\ Ascending(LastCall.rns)) => Accepted
    /\ Len(LastCall.rns) = 1 => Accepted
    /\ Accepted =>
         /\ Field(LastWord, 14, 13) = Len(LastCall.rns) - 1
         /\ Field(LastWord, 9, 5) = LastCall.rns[1]

C22_Witness ==
  /\ Rejected
  /\ LastCall.cat = "Table"
  /\ LastCall.mn = "tbx"
  /\ LastCall.rns = <<1, 2, 31>>
  /\ sink = <<>>

----------------------------------------------------------------------------
(* Calls and the state around them *)

PeerLastCall == peer.calls[Len(peer.calls)]

\* The same call is the last one made on both emitters.
SameLastCall ==
  /\ calls # <<>>
  /\ peer.calls # <<>>
  /\ LastCall = PeerLastCall

\* C23: when the same mnemonic call with the same arguments is the last call
\* of two runs, whatever was called before it in either, it fails in both or
\* appends the same word in both.
C23_WordFromArgumentsOnly ==
  SameLastCall =>
    /\ (status = "aborted") <=> (peer.status = "aborted")
    /\ status = "running" =>
         /\ Len(sink) = Len(calls)
         /\ Len(peer.sink) = Len(peer.calls)
         /\ LastWord = peer.sink[Len(peer.sink)]

\* pmull accepted as the second call of one run and as the first call of
\* the other.
C23_Witness ==
  /\ SameLastCall
  /\ LastCall.mn = "pmull"
  /\ Len(calls) = 2
  /\ Len(peer.calls) = 1
  /\ status = "running"
  /\ LastWord = peer.sink[1]

\* The emitter after the calls cs made one after the other on an emitter of
\* its own; a failed call ends the run.
RECURSIVE RunAlone(_)
RunAlone(cs) ==
  IF cs = <<>> THEN [sink |-> <<>>, ok |-> TRUE]
  ELSE LET before == RunAlone(SubSeq(cs, 1, Len(cs) - 1))
       IN IF before.ok THEN Emit(before, cs[Len(cs)]) ELSE before

\* C24: with the calls of two emitters interleaved in any order, each sink
\* holds exactly the words it holds when that emitter's calls run alone.
C24_SinksIndependent ==
  /\ sink = RunAlone(calls).sink
  /\ (status = "running") <=> RunAlone(calls).ok
  /\ peer.sink = RunAlone(peer.calls).sink
  /\ (peer.status = "running") <=> RunAlone(peer.calls).ok

\* Both emitters have appended two words, and not the same ones.
C24_Witness ==
  /\ Len(sink) = 2
  /\ Len(peer.sink) = 2
  /\ sink # peer.sink
  /\ sink = RunAlone(calls).sink

----------------------------------------------------------------------------
(* immh and the element size *)

\* The element width in bits that the immh field v names by the position of
\* its highest set bit: 8, 16, 32 or 64, and 0 for an empty field.
WidthNamedBy(v) ==
  IF v % 16 = 0 THEN 0
  ELSE 8 * Pow2(CHOOSE k \in 0 .. 3 : (v % 16) \div Pow2(k) = 1)

\* C25 (as stated): the immh an accepted shift-by-immediate or vector
\* fixed-point conversion call hands on fits in 4 bits, and the position of
\* the highest set bit of the immh field names the width of the elements
\* the call works on (8-bit -> 0, 16-bit -> 1, 32-bit -> 2, 64-bit -> 3).
C25_ImmhNamesElementSize ==
  (Accepted /\ LastCall.cat = "ShiftByImm") =>
    /\ Field(HandedImmh(LastCall), 31, 0) < 16
    /\ WidthNamedBy(ImmhOf(LastWord)) = ShiftBits(LastCall)

----------------------------------------------------------------------------
(* Scalar fixed-point conversions *)

ScaleOf(w) == Field(w, 15, 10)

\* C28: a scalar fixed-point conversion is accepted exactly when
\* FractionalBits is in 1 .. width of the general register; the accepted
\* word carries scale = 64 - FractionalBits in bits 15:10, which is in
\* 0 .. 63, and at least 32 (bit 15 set) for a 32-bit general register.
C28_ScaleOfFractionalBits ==
  (calls # <<>> /\ LastCall.cat = "ScalarFixed") =>
    LET width == IF LastCall.GPRSize = "i64Bit" THEN 64 ELSE 32
    IN /\ Accepted <=> (LastCall.imm >= 1 /\ LastCall.imm <= width)
       /\ Rejected <=> ~(LastCall.imm >= 1 /\ LastCall.imm <= width)
       /\ Accepted =>
            /\ 64 - LastCall.imm \in 0 .. 63
            /\ ScaleOf(LastWord) = 64 - LastCall.imm
            /\ (31 \in LastWord) <=> (width = 64)
            /\ width = 32 => (ScaleOf(LastWord) >= 32 /\ 15 \in LastWord)

C28_Witness ==
  /\ Accepted
  /\ LastCall.cat = "ScalarFixed"
  /\ LastCall.mn = "fcvtzs"
  /\ LastCall.GPRSize = "i32Bit"
  /\ LastCall.imm = 32
  /\ ScaleOf(LastWord) = 32

----------------------------------------------------------------------------
(* Signed and unsigned twins *)

\* The unsigned twin of each signed mnemonic, by encoding class.
UnsignedTwin ==
  [ ThreeSame  |-> [ shadd |-> "uhadd", sqadd |-> "uqadd", srhadd |-> "urhadd",
                     shsub |-> "uhsub", sqsub |-> "uqsub", sshl |-> "ushl",
                     sqshl |-> "uqshl", srshl |-> "urshl", sqrshl |-> "uqrshl",
                     smax |-> "umax", smin |-> "umin", sabd |-> "uabd",
                     saba |-> "uaba", smaxp |-> "umaxp", sminp |-> "uminp" ],
    TwoRegMisc |-> [ sqxtn |-> "uqxtn", sqxtn2 |-> "uqxtn2" ],
    ShiftByImm |-> [ sshr |-> "ushr", ssra |-> "usra", srshr |-> "urshr",
                     srsra |-> "ursra", sqshl |-> "uqshl",
                     sqshrn |-> "uqshrn", sqshrn2 |-> "uqshrn2",
                     sqrshrn |-> "uqrshrn", sqrshrn2 |-> "uqrshrn2",
                     sshll |-> "ushll", sshll2 |-> "ushll2",
                     sxtl |-> "uxtl", sxtl2 |-> "uxtl2",
                     scvtf |-> "ucvtf", fcvtzs |-> "fcvtzu" ] ]

HasTwin(c) == c.cat \in DOMAIN UnsignedTwin /\ c.mn \in DOMAIN UnsignedTwin[c.cat]

\* The calls of the unsigned twin with the arguments of c, one for each
\* width the build may produce where the twin reads an undefined one.
TwinCalls(c) ==
  LET mn == UnsignedTwin[c.cat][c.mn]
      form == IF c.cat = "ShiftByImm" THEN ShiftByImmTable[mn].form ELSE "none"
  IN {[c EXCEPT !.mn = mn, !.ub = ub] : ub \in UBChoices(form, c.size)}

OnFresh(c) == Emit([sink |-> <<>>, ok |-> TRUE], c)

DifferIn(w1, w2) == (w1 \ w2) \cup (w2 \ w1)

\* C26 (as stated): a signed mnemonic and its unsigned twin accept exactly
\* the same inputs, and on an accepted input their words differ exactly in
\* bit 29.
C26_TwinsDifferInBit29 ==
  (calls # <<>> /\ HasTwin(LastCall)) =>
    \A t \in TwinCalls(LastCall) :
      /\ OnFresh(t).ok <=> Accepted
      /\ Accepted => DifferIn(OnFresh(t).sink[1], LastWord) = {29}

----------------------------------------------------------------------------
(* 64-bit and 128-bit register forms *)

\* The '2' form of each mnemonic that has one, by encoding class.
UpperHalfForm ==
  [ ThreeSame  |-> << >>,
    TwoRegMisc |-> [ xtn |-> "xtn2", sqxtn |-> "sqxtn2", sqxtun |-> "sqxtun2",
                     uqxtn |-> "uqxtn2" ],
    ShiftByImm |-> [ shrn |-> "shrn2", rshrn |-> "rshrn2", sqshrn |-> "sqshrn2",
                     sqrshrn |-> "sqrshrn2", sshll |-> "sshll2", sxtl |-> "sxtl2",
                     sqshrun |-> "sqshrun2", sqrshrun |-> "sqrshrun2",
                     uqshrn |-> "uqshrn2", uqrshrn |-> "uqrshrn2",
                     ushll |-> "ushll2", uxtl |-> "uxtl2" ] ]

\* c is a call of the 64-bit register form, or of the lower-half form, of a
\* mnemonic that has both.
IsNarrowForm(c) == c.cat \in DOMAIN UpperHalfForm /\ c.Q = 0

\* The calls of the 128-bit register form (or the '2' form) with the
\* arguments of c.
WideCalls(c) ==
  LET mn == IF c.mn \in DOMAIN UpperHalfForm[c.cat]
            THEN UpperHalfForm[c.cat][c.mn] ELSE c.mn
      form == IF c.cat = "ShiftByImm" THEN ShiftByImmTable[mn].form ELSE "none"
  IN {[c EXCEPT !.mn = mn, !.Q = 1, !.ub = ub] : ub \in UBChoices(form, c.size)}

\* C27 (as stated): on an input that the 64-bit and the 128-bit register
\* form (or the base and the '2' form) of a mnemonic both accept, the two
\* words differ exactly in bit 30.
C27_WidthFormsDifferInBit30 ==
  (Accepted /\ IsNarrowForm(LastCall)) =>
    \A t \in WideCalls(LastCall) :
      OnFresh(t).ok => DifferIn(OnFresh(t).sink[1], LastWord) = {30}

----------------------------------------------------------------------------
(* Lane index of the single-structure loads and stores *)

QOf(w) == IF 30 \in w THEN 1 ELSE 0
SOf(w) == IF 12 \in w THEN 1 ELSE 0
SizeOf(w) == Field(w, 11, 10)

\* The lane index read back from the Q, S and size bits of w for elements
\* of the given size.
LaneOf(w, size) ==
  CASE size = i8Bit  -> 8 * QOf(w) + 4 * SOf(w) + SizeOf(w)
    [] size = i16Bit -> 4 * QOf(w) + 2 * SOf(w) + SizeOf(w) \div 2
    [] size = i32Bit -> 2 * QOf(w) + SOf(w)
    [] size = i64Bit -> QOf(w)

\* C29: for 8-, 16-, 32- and 64-bit elements the indexed load/store helper
\* accepts Index exactly when Index < 128 / element size in bits; the word
\* carries Index as Q:S:size, Q:S:size<1> with size<0> = 0, Q:S with size =
\* 00, or Q with S = 0 and size = 01, and Index can be read back from it.
C29_LaneIndexInQSSize ==
  (calls # <<>> /\ LastCall.cat = "LoadStoreSingle"
     /\ LastCall.size \in {i8Bit, i16Bit, i32Bit, i64Bit}) =>
    LET bits == 8 * Pow2(LastCall.size)
    IN /\ Accepted <=> LastCall.imm < 128 \div bits
       /\ Rejected <=> ~(LastCall.imm < 128 \div bits)
       /\ Accepted =>
            /\ LaneOf(LastWord, LastCall.size) = LastCall.imm
            /\ LastCall.size = i16Bit => SizeOf(LastWord) % 2 = 0
            /\ LastCall.size = i32Bit => SizeOf(LastWord) = 0
            /\ LastCall.size = i64Bit => (SOf(LastWord) = 0 /\ SizeOf(LastWord) = 1)

C29_Witness ==
  /\ Accepted
  /\ LastCall.cat = "LoadStoreSingle"
  /\ LastCall.size = i16Bit
  /\ LastCall.imm = 7
  /\ QOf(LastWord) = 1 /\ SOf(LastWord) = 1 /\ SizeOf(LastWord) = 2

----------------------------------------------------------------------------
(* movi on 8-, 16- and 32-bit elements *)

CmodeOf(w) == Field(w, 15, 12)

\* The Shift amounts of movi for an element size.
MoviShifts(size) ==
  CASE size = i8Bit -> {0} [] size = i16Bit -> {0, 8} [] size = i32Bit -> {0, 8, 16, 24}

\* The element size, immediate and Shift read back from a movi word with
\* op = 0.
MoviDecoded(w) ==
  LET cmode == CmodeOf(w)
  IN CASE cmode = \b1110  -> [size |-> i8Bit, imm |-> Imm8Of(w), Shift |-> 0]
       [] cmode \in {\b1000, \b1010}
                       -> [size |-> i16Bit, imm |-> Imm8Of(w), Shift |-> 8 * ((cmode \div 2) % 2)]
       [] cmode \in {\b0000, \b0010, \b0100, \b0110}
                       -> [size |-> i32Bit, imm |-> Imm8Of(w), Shift |-> 8 * (cmode \div 2)]
       [] OTHER -> [size |-> i128Bit, imm |-> 0, Shift |-> 0]

\* C30: movi on 8-, 16- or 32-bit elements accepts exactly the immediates
\* that fit in 8 bits with Shift 0 (8-bit), 0 or 8 (16-bit), 0, 8, 16 or 24
\* (32-bit); the word has op = 0, cmode 1110, 1000 / 1010 or (Shift / 8) << 1,
\* immediate bits 7:5 in bits 18:16 and bits 4:0 in bits 9:5, and the
\* immediate and Shift can be read back from it.
C30_MoviNarrowEncoding ==
  (calls # <<>> /\ LastCall.cat = "ModifiedImm"
     /\ LastCall.size \in {i8Bit, i16Bit, i32Bit}) =>
    LET c == LastCall
        legal == FitsInByte(c.Imm) /\ c.imm \in MoviShifts(c.size)
    IN /\ Accepted <=> legal
       /\ Rejected <=> ~legal
       /\ Accepted =>
            /\ 29 \notin LastWord
            /\ CmodeOf(LastWord) = CASE c.size = i8Bit  -> \b1110
                                     [] c.size = i16Bit -> IF c.imm = 0 THEN \b1000 ELSE \b1010
                                     [] c.size = i32Bit -> (c.imm \div 8) * 2
            /\ Field(LastWord, 18, 16) = c.Imm[0] \div 32
            /\ Field(LastWord, 9, 5) = c.Imm[0] % 32
            /\ MoviDecoded(LastWord) = [size |-> c.size, imm |-> c.Imm[0], Shift |-> c.imm]

C30_Witness ==
  /\ Accepted
  /\ LastCall.cat = "ModifiedImm"
  /\ LastCall.size = i32Bit
  /\ LastCall.imm = 24
  /\ LastCall.Imm[0] = 165
  /\ CmodeOf(LastWord) = \b0110

=============================================================================
